---------------------------- MODULE Spec2Model ----------------------------
(***************************************************************************)
(* GenresFox image pipeline: the ImageProcessor orchestrator (main thread), *)
(* the Dimension Planner, the Quality Optimizer and the image worker with   *)
(* its optional WASM bridge, as state machines.                             *)
(*                                                                          *)
(* JavaScript runs one task at a time: an async function runs without       *)
(* interruption from one await to the next.  Every action below is one such *)
(* segment (or one whole synchronous function), including the finally       *)
(* blocks and the cleanup calls it executes.                                *)
(***************************************************************************)
EXTENDS Integers, Sequences, FiniteSets, TLC

VARIABLES
    isProcessing,       \* _state.isProcessing
    activeObjectUrls,   \* _state.activeObjectUrls
    inv,                \* the calls made on the ImageProcessor instance, by call number
    ncalls              \* number of calls made so far

orchVars == <<isProcessing, activeObjectUrls, inv, ncalls>>

VARIABLES
    dimIn,              \* the Dimension Planner's arguments
    dimOut              \* what the planner returned, and which of the two planners

dimVars == <<dimIn, dimOut>>

VARIABLES
    encoder,            \* the encoder behind toBlob / convertToBlob
    opt                 \* one invocation of the Quality Optimizer: its locals

optVars == <<encoder, opt>>

VARIABLES
    CONFIG,             \* the worker's CONFIG (the fields the bridge reads)
    WASM,               \* the worker's WASM state
    loading,            \* the 'init' messages whose loadWasm call is at an await
    req,                \* the worker's 'process' / 'generatePreview' requests, by id
    posted              \* the messages the worker has posted, by request id

workerVars == <<CONFIG, WASM, loading, req, posted>>

VARIABLES
    chunkIn,            \* the chunked strategy's arguments: source, target, chunk edge
    surface,            \* the destination canvas: which chunk each pixel shows
    drawn               \* the chunks composited so far

chunkVars == <<chunkIn, surface, drawn>>

\* _processWithSteps
VARIABLES
    stepIn,     \* the call's arguments: the image's size and the target size
    stepRun       \* the loop's locals, its iteration count and what it returned

stepVars == <<stepIn, stepRun>>

VARIABLES
    cxCanvas,   \* the canvas optimizeBlobSize is given: its width and height
    cxRun       \* the complexity estimate: its sampling and what came of it

complexityVars == <<cxCanvas, cxRun>>

VARIABLES
    host,       \* the window: MessageChannel support, timer and frame handles issued, pending timers and frames
    callbacks   \* the calls of requestIdleCallback: the closure of each and what happened to its callback

idleVars == <<host, callbacks>>

vars == <<orchVars, dimVars, optVars, workerVars, chunkVars, stepVars, complexityVars, idleVars>>

\* what the actions of one component leave alone
notOrch == <<dimVars, optVars, workerVars, chunkVars, stepVars, complexityVars, idleVars>>

notDim == <<orchVars, optVars, workerVars, chunkVars, stepVars, complexityVars, idleVars>>

notOpt == <<orchVars, dimVars, workerVars, chunkVars, stepVars, complexityVars, idleVars>>

notWorker == <<orchVars, dimVars, optVars, chunkVars, stepVars, complexityVars, idleVars>>

notChunk == <<orchVars, dimVars, optVars, workerVars, stepVars, complexityVars, idleVars>>

notStep == <<orchVars, dimVars, optVars, workerVars, chunkVars, complexityVars, idleVars>>

notComplexity == <<orchVars, dimVars, optVars, workerVars, chunkVars, stepVars, idleVars>>

notIdle == <<orchVars, dimVars, optVars, workerVars, chunkVars, stepVars, complexityVars>>

----------------------------------------------------------------------------
(* Bounds of the model *)

MaxCalls == 2

\* Dimension Planner: source sides 1 .. MaxSrc, maxima 1 .. MaxBox, display
\* hints k/d for k in 0 .. MaxHint and d in HintDens (0 = no hint)
MaxSrc == 5
MaxBox == 3
MaxHint == 4

\* Quality Optimizer: a monotone encoder changes its output size at
\* qualities 0.5 + k * 0.5 / GridSteps, k in 0 .. GridSteps
GridSteps == 5

\* 'init' messages and requests sent to the worker
MaxInits == 2
MaxReqs == 1

\* requests in flight together in the specification of interleaved requests
MaxFlight == 2

\* the complexity estimate: canvases up to MaxSurface pixels on a side
MaxSurface == 300

\* the requestIdleCallback polyfill: calls made, and the highest handle the
\* window may issue first (timer handles and frame handles are two counters)
MaxRegs == 2
MaxHandle == 2

\* the chunked strategy: sources up to MaxChunkSrc pixels on a side, chunk
\* edges up to MaxEdge
MaxChunkSrc == 3
MaxEdge == 2
MaxStripSrc == 7
MaxStepSrc == 12
MaxStepBox == 3
MaxHalvings == 6

----------------------------------------------------------------------------
(* ImageProcessor CONFIG *)

MAX_WIDTH == 3840
MAX_HEIGHT == 2160
PREVIEW_MAX_WIDTH == 800
PREVIEW_MAX_HEIGHT == 600
LARGE_IMAGE_THRESHOLD == 10 * 1024 * 1024
HUGE_IMAGE_THRESHOLD == 30 * 1024 * 1024
MAX_PIXELS == 50 * 1000 * 1000
CHUNK_SIZE == 2048
MAX_FILE_SIZE == 50 * 1024 * 1024
TARGET_OUTPUT_SIZE == 5 * 1024 * 1024

MB == 1024 * 1024

----------------------------------------------------------------------------
(* Arithmetic.  JavaScript numbers are modelled as exact rationals n/d      *)
(* (d > 0); Math.round rounds to the nearest integer, halves upwards.       *)

Rat(n, d) == [n |-> n, d |-> d]

RLeq(a, b) == a.n * b.d <= b.n * a.d

RMin(a, b) == IF RLeq(a, b) THEN a ELSE b

\* Math.round(n / d), d > 0
MathRound(n, d) == (2 * n + d) \div (2 * d)

\* Math.ceil(n / d), n >= 0, d > 0
MathCeil(n, d) == (n + d - 1) \div d

NonDecreasing(values) ==
    \A j, k \in 1 .. Len(values) : j < k => values[j] <= values[k]

Min2(a, b) == IF a <= b THEN a ELSE b

Max2(a, b) == IF a >= b THEN a ELSE b

----------------------------------------------------------------------------
(* Dimension Planner *)

\* A slip: the larger of the two scale factors is taken.
FitOrScale_MaxScale(width, height, tw, th) ==
    IF width * tw.d <= tw.n /\ height * th.d <= th.n
    THEN [width |-> width, height |-> height]
    ELSE LET scaleX == Rat(tw.n, tw.d * width)
             scaleY == Rat(th.n, th.d * height)
             scale  == IF RLeq(scaleX, scaleY) THEN scaleY ELSE scaleX
         IN  [width  |-> MathRound(width * scale.n, scale.d),
              height |-> MathRound(height * scale.n, scale.d)]

\* A slip: the fit test is missing, every source is scaled to the box.
FitOrScale_NoFitTest(width, height, tw, th) ==
    LET scaleX == Rat(tw.n, tw.d * width)
        scaleY == Rat(th.n, th.d * height)
        scale  == RMin(scaleX, scaleY)
    IN  [width  |-> MathRound(width * scale.n, scale.d),
         height |-> MathRound(height * scale.n, scale.d)]

\* The part common to both planners: fit test, scale, rounding.
\* tw, th are the effective target box (rationals).
FitOrScale(width, height, tw, th) ==
    IF width * tw.d <= tw.n /\ height * th.d <= th.n
    THEN [width |-> width, height |-> height]
    ELSE LET scaleX == Rat(tw.n, tw.d * width)
             scaleY == Rat(th.n, th.d * height)
             scale  == RMin(scaleX, scaleY)
         IN  [width  |-> MathRound(width * scale.n, scale.d),
              height |-> MathRound(height * scale.n, scale.d)]

\* image-worker.js calculateDimensions: screenWidth/screenHeight are optional
\* (a falsy hint, modelled as 0, means "use the maximum").
calculateDimensions(width, height, maxWidth, maxHeight, screenWidth, screenHeight) ==
    LET targetWidth  == RMin(IF screenWidth.n = 0 THEN Rat(maxWidth, 1) ELSE screenWidth,
                             Rat(maxWidth, 1))
        targetHeight == RMin(IF screenHeight.n = 0 THEN Rat(maxHeight, 1) ELSE screenHeight,
                             Rat(maxHeight, 1))
    IN  FitOrScale(width, height, targetWidth, targetHeight)

\* A slip: the width alone decides the scale.
IPCalculateDimensions_WidthOnly(width, height, maxWidth, maxHeight, screenW, screenH) ==
    LET targetWidth == RMin(RMin(Rat(maxWidth, 1), screenW), Rat(maxWidth, 1))
        scaleX      == Rat(targetWidth.n, targetWidth.d * width)
    IN  IF width * targetWidth.d <= targetWidth.n
        THEN [width |-> width, height |-> height]
        ELSE [width  |-> MathRound(width * scaleX.n, scaleX.d),
              height |-> MathRound(height * scaleX.n, scaleX.d)]

\* ImageProcessor._calculateDimensions: the hint is always read from the
\* environment, screen.width * devicePixelRatio (a rational, possibly 0).
IPCalculateDimensions(width, height, maxWidth, maxHeight, screenW, screenH) ==
    LET screenWidth  == RMin(Rat(maxWidth, 1), screenW)
        screenHeight == RMin(Rat(maxHeight, 1), screenH)
        targetWidth  == RMin(screenWidth, Rat(maxWidth, 1))
        targetHeight == RMin(screenHeight, Rat(maxHeight, 1))
    IN  FitOrScale(width, height, targetWidth, targetHeight)

\* The planner applied to bounded arguments.
HintDens == {1, 2}

Hints == {Rat(k, d) : k \in 0 .. MaxHint, d \in HintDens}

DimInputs ==
    [w : 1 .. MaxSrc, h : 1 .. MaxSrc, maxW : 1 .. MaxBox, maxH : 1 .. MaxBox,
     sw : Hints, sh : Hints]

NoDimIn == [w |-> 0, h |-> 0, maxW |-> 0, maxH |-> 0, sw |-> Rat(0, 1), sh |-> Rat(0, 1)]

NoDimOut == [who |-> "none", width |-> 0, height |-> 0]

\* the worker plans (image-worker.js lines 617-626)
PlanWorker ==
    /\ dimOut.who # "worker"
    /\ LET d == calculateDimensions(dimIn.w, dimIn.h, dimIn.maxW, dimIn.maxH,
                                    dimIn.sw, dimIn.sh)
       IN  dimOut' = [who |-> "worker", width |-> d.width, height |-> d.height]
    /\ UNCHANGED <<dimIn, notDim>>

\* ImageProcessor plans (lines 1160-1165); a display has a positive size
PlanIP ==
    /\ dimOut.who # "ip"
    /\ dimIn.sw.n > 0 /\ dimIn.sh.n > 0
    /\ LET d == IPCalculateDimensions(dimIn.w, dimIn.h, dimIn.maxW, dimIn.maxH,
                                      dimIn.sw, dimIn.sh)
       IN  dimOut' = [who |-> "ip", width |-> d.width, height |-> d.height]
    /\ UNCHANGED <<dimIn, notDim>>

----------------------------------------------------------------------------
(* Quality Optimizer *)

\* Qualities are exact multiples of 1/QScale: every constant of the code is a
\* multiple of 0.001 and the binary search halves at most five times.
QScale == 1000 * 32

Q(thousandths) == thousandths * 32

\* image-worker.js CONFIG
W_QUALITY_HIGH == Q(950)
W_QUALITY_MEDIUM == Q(880)

\* ImageProcessor CONFIG
IP_QUALITY_HIGH == Q(920)

\* Blob sizes, in percent of the byte budget
SizeLevels == {70, 90, 98, 103, 120}

SizeOf(percent) == (TARGET_OUTPUT_SIZE * percent) \div 100

LevelSeq == <<70, 90, 98, 103, 120>>

\* The encoder.  A monotone encoder is a non-decreasing step function of the
\* quality: thr[k] is the quality from which the size is at least the
\* (k+1)-th level.  An arbitrary encoder may return any size on any call.
GridQualities == {QScale \div 2 + (k * (QScale \div 2)) \div GridSteps : k \in 0 .. GridSteps}

Never == QScale + 1

MonoEncoders ==
    {[mono |-> TRUE, thr |-> t] :
        t \in {u \in [1 .. 4 -> GridQualities \cup {Never}] :
                  \A k \in 1 .. 3 : u[k] <= u[k + 1]}}

ArbitraryEncoder == [mono |-> FALSE, thr |-> [k \in 1 .. 4 |-> Never]]

NoEncoder == [mono |-> FALSE, thr |-> [k \in 1 .. 4 |-> 0]]

MonoSize(e, q) == SizeOf(LevelSeq[1 + Cardinality({k \in 1 .. 4 : e.thr[k] <= q})])

\* the sizes one encode call at quality q may produce
EncodeSizes(e, q) ==
    IF e.mono THEN {MonoSize(e, q)} ELSE {SizeOf(p) : p \in SizeLevels}

\* image-worker.js calculateImageComplexity returns a score in [0, 1]; in tenths
Complexities == {0, 5, 10}

\* image-worker.js lines 231-232
AdjustedQuality(complexityTenths) ==
    LET baseQuality == W_QUALITY_HIGH + ((complexityTenths - 5) * QScale) \div 100
    IN  Max2(Q(700), Min2(Q(980), baseQuality))

\* image-worker.js lines 242-249
QualitySteps(adjustedQuality) ==
    <<adjustedQuality, (adjustedQuality * 9) \div 10, (adjustedQuality * 8) \div 10,
      W_QUALITY_MEDIUM, Q(750), Q(700)>>

NoOpt ==
    [who |-> "none", pc |-> "idle", adjusted |-> 0, quality |-> 0,
     minQuality |-> 0, maxQuality |-> 0, bestQuality |-> 0, bestSize |-> 0,
     idx |-> 0, i |-> 0, encodes |-> 0, failed |-> 0, firstSize |-> 0,
     retQuality |-> 0, retSize |-> 0,
     fitQuality |-> 0, lowQuality |-> Never, overQuality |-> Never,
     belowOver |-> TRUE]

\* An encode at quality q has produced a blob of `size` bytes.  What the
\* invocation has seen so far: fitQuality is the highest quality whose blob
\* was within the budget (0: none), lowQuality the lowest quality tried,
\* overQuality the lowest quality at which a trial of the loops (not the
\* initial encode) exceeded budget * 1.05 (Never: none), belowOver whether
\* every trial was made strictly below all earlier trials that had exceeded
\* budget * 1.05.
Attempt(o, q, size) ==
    [o EXCEPT !.encodes = @ + 1,
              !.fitQuality = IF size <= TARGET_OUTPUT_SIZE THEN Max2(@, q) ELSE @,
              !.lowQuality = Min2(@, q),
              !.overQuality = IF o.pc # "first" /\ size * 100 > TARGET_OUTPUT_SIZE * 105
                              THEN Min2(@, q) ELSE @,
              !.belowOver = @ /\ q < o.overQuality]

\* the optimizer is entered and has issued its first encode
OptStart(who, complexityTenths) ==
    [NoOpt EXCEPT !.who = who, !.pc = "first",
                  !.adjusted = IF who = "worker" THEN AdjustedQuality(complexityTenths)
                               ELSE IP_QUALITY_HIGH,
                  !.quality = IF who = "worker" THEN AdjustedQuality(complexityTenths)
                              ELSE IP_QUALITY_HIGH]

Return(o, q, size) == [o EXCEPT !.pc = "done", !.retQuality = q, !.retSize = size]

\* A slip: the bracket test of the progressive loop is missing.
InBracket_Always(o, stepQuality) == TRUE

\* image-worker.js line 259 (negated): the step is tried
InBracket(o, stepQuality) ==
    ~(stepQuality < o.minQuality \/ stepQuality > o.maxQuality)

\* the next step of qualitySteps, from index `from`, that is tried (7: none)
NextStep(o, from) ==
    LET steps == QualitySteps(o.adjusted)
        tried == {k \in from .. 6 : InBracket(o, steps[k])}
    IN  IF tried = {} THEN 7 ELSE CHOOSE k \in tried : \A m \in tried : k <= m

\* image-worker.js lines 258-294 from step index `from` to the next encode:
\* the next tried step, else the binary search when the best blob is still
\* above budget * 1.05, else return bestBlob
WorkerContinue(o, from) ==
    LET k == NextStep(o, from)
    IN  IF k <= 6
        THEN [o EXCEPT !.pc = "step", !.idx = k, !.quality = QualitySteps(o.adjusted)[k]]
        ELSE IF o.bestSize * 100 > TARGET_OUTPUT_SIZE * 105
        THEN [o EXCEPT !.pc = "binary", !.idx = 7, !.i = 0,
                       !.quality = (o.minQuality + o.maxQuality) \div 2]
        ELSE Return([o EXCEPT !.idx = 7], o.bestQuality, o.bestSize)

\* any encode call throws (convertToBlob rejects, toBlob yields no blob):
\* neither optimizer catches it
OptEncodeFails ==
    /\ opt.pc \in {"first", "step", "binary"}
    /\ ~encoder.mono
    /\ opt' = [opt EXCEPT !.pc = "threw", !.encodes = @ + 1, !.failed = @ + 1]
    /\ UNCHANGED <<encoder, notOpt>>

\* image-worker.js lines 235-256: the first encode returns
WFirstEncoded(size) ==
    /\ opt.who = "worker" /\ opt.pc = "first"
    /\ size \in EncodeSizes(encoder, opt.quality)
    /\ LET o == [Attempt(opt, opt.quality, size) EXCEPT !.firstSize = size]
       IN  opt' = IF size <= TARGET_OUTPUT_SIZE
                  THEN Return(o, o.quality, size)
                  ELSE WorkerContinue([o EXCEPT !.minQuality = Q(500),
                                                !.maxQuality = o.adjusted,
                                                !.bestSize = size,
                                                !.bestQuality = o.quality], 1)
    /\ UNCHANGED <<encoder, notOpt>>

\* image-worker.js lines 261-272: the encode of a progressive step returns
WStepEncoded(size) ==
    /\ opt.who = "worker" /\ opt.pc = "step"
    /\ size \in EncodeSizes(encoder, opt.quality)
    /\ LET stepQuality == opt.quality
           o == Attempt(opt, opt.quality, size)
           o2 == IF size * 100 <= TARGET_OUTPUT_SIZE * 105
                 THEN IF stepQuality > o.bestQuality \/ o.bestSize > TARGET_OUTPUT_SIZE
                      THEN [o EXCEPT !.bestSize = size, !.bestQuality = stepQuality,
                                     !.maxQuality = stepQuality]
                      ELSE o
                 ELSE [o EXCEPT !.minQuality = stepQuality]
       IN  opt' = WorkerContinue(o2, opt.idx + 1)
    /\ UNCHANGED <<encoder, notOpt>>

\* image-worker.js lines 276-294: an encode of the binary search returns
WBinaryEncoded(size) ==
    /\ opt.who = "worker" /\ opt.pc = "binary"
    /\ size \in EncodeSizes(encoder, opt.quality)
    /\ LET quality == opt.quality
           o == [Attempt(opt, opt.quality, size) EXCEPT !.i = @ + 1]
           over  == size * 100 > TARGET_OUTPUT_SIZE * 105
           under == size * 100 < TARGET_OUTPUT_SIZE * 95
           o2 == IF over THEN [o EXCEPT !.maxQuality = quality]
                 ELSE IF quality > o.bestQuality
                 THEN [o EXCEPT !.minQuality = quality, !.bestSize = size,
                                !.bestQuality = quality]
                 ELSE [o EXCEPT !.minQuality = quality]
       IN  opt' = IF ~over /\ ~under THEN Return(o, quality, size)
                  ELSE IF o2.i = 5 THEN Return(o2, o2.bestQuality, o2.bestSize)
                  ELSE [o2 EXCEPT !.quality = (o2.minQuality + o2.maxQuality) \div 2]
    /\ UNCHANGED <<encoder, notOpt>>

\* part_001 lines 1042-1055: the first encode of _optimizeBlobSize returns
IPFirstEncoded(size) ==
    /\ opt.who = "ip" /\ opt.pc = "first"
    /\ size \in EncodeSizes(encoder, opt.quality)
    /\ LET o == [Attempt(opt, opt.quality, size) EXCEPT !.firstSize = size]
       IN  opt' = IF size <= TARGET_OUTPUT_SIZE
                  THEN Return(o, o.quality, size)
                  ELSE [o EXCEPT !.pc = "binary", !.i = 0,
                                 !.minQuality = Q(300), !.maxQuality = o.quality,
                                 !.quality = (Q(300) + o.quality) \div 2]
    /\ UNCHANGED <<encoder, notOpt>>

\* part_001 lines 1054-1067: an encode of the binary search returns
IPBinaryEncoded(size) ==
    /\ opt.who = "ip" /\ opt.pc = "binary"
    /\ size \in EncodeSizes(encoder, opt.quality)
    /\ LET quality == opt.quality
           o == [Attempt(opt, opt.quality, size) EXCEPT !.i = @ + 1]
           over  == size > TARGET_OUTPUT_SIZE
           under == size * 10 < TARGET_OUTPUT_SIZE * 8
           o2 == IF over THEN [o EXCEPT !.maxQuality = quality]
                 ELSE IF under THEN [o EXCEPT !.minQuality = quality]
                 ELSE o
       IN  opt' = IF (~over /\ ~under) \/ o2.i = 5 THEN Return(o2, quality, size)
                  ELSE [o2 EXCEPT !.quality = (o2.minQuality + o2.maxQuality) \div 2]
    /\ UNCHANGED <<encoder, notOpt>>

----------------------------------------------------------------------------
(* ImageProcessor: the orchestrator *)

Calls == 1 .. MaxCalls

\* The files handed to the orchestrator: byte size and decoded dimensions.
Files ==
    { [size |-> 1 * MB,  w |-> 400,   h |-> 300],     \* small
      [size |-> 20 * MB, w |-> 6000,  h |-> 4000],    \* above the large threshold
      [size |-> 40 * MB, w |-> 6000,  h |-> 4000],    \* above the huge threshold
      [size |-> 20 * MB, w |-> 10000, h |-> 6000],    \* above the pixel ceiling
      [size |-> 60 * MB, w |-> 6000,  h |-> 4000],    \* above the byte ceiling
      [size |-> 2 * MB,  w |-> 12000, h |-> 4000],    \* more than 3 x its target
      [size |-> 8 * MB,  w |-> 6000,  h |-> 4000] }   \* large picture, small file

NoFile == [size |-> 0, w |-> 0, h |-> 0]

\* window.screen.width/height * devicePixelRatio of the orchestrator's display
OrchScreen == [w |-> Rat(3840, 1), h |-> Rat(2160, 1)]

Kinds == {"processImage", "processImageToUrl", "generatePreview"}

PIKind(k) == k \in {"processImage", "processImageToUrl"}

\* The points of a segment at which a callback or a canvas operation may throw.
Faults == {"none", "p5", "onPreview", "p15", "p30", "p35", "resize", "pchunk",
           "p70", "p75", "p90", "p100"}

IdleInv ==
    [kind |-> "none", pc |-> "idle", file |-> NoFile, err |-> "none",
     live |-> {}, allocs |-> 0, decodes |-> 0, previews |-> 0, prog |-> 0,
     tw |-> 0, th |-> 0, strategy |-> "none", chunks |-> 0, enc |-> 0,
     ordered |-> TRUE, previewAt |-> 0]

Url(i, what) == <<i, what>>

\* _createTrackedObjectUrl / _revokeTrackedObjectUrl on the Set
Track(urls, u) == urls \cup {u}

Revoke(urls, u) == urls \ {u}

\* The promise settles: the invocation's locals (progress position, chunk
\* and encode counters, the plan) are gone; what it did to the URL set, to
\* its canvases and through its callbacks stays.
Reject(r, e) ==
    [r EXCEPT !.pc = "rejected", !.err = e, !.prog = 0, !.chunks = 0, !.enc = 0,
              !.tw = 0, !.th = 0, !.strategy = "none"]

Resolve(r) ==
    [r EXCEPT !.pc = "resolved", !.chunks = 0, !.enc = 0, !.strategy = "none"]

\* onProgress is called with these values, in this order: prog is the last
\* value the consumer was given, ordered whether none was below its predecessor
Report(r, values) ==
    [r EXCEPT !.prog = values[Len(values)],
              !.ordered = @ /\ NonDecreasing(<<r.prog>> \o values)]

ChunksTotal(f) == MathCeil(f.w, CHUNK_SIZE) * MathCeil(f.h, CHUNK_SIZE)

\* A slip: only the byte size is looked at.
SelectStrategy_BytesOnly(f, targetWidth, targetHeight) ==
    IF f.size > HUGE_IMAGE_THRESHOLD THEN "chunked"
    ELSE IF f.size > LARGE_IMAGE_THRESHOLD THEN "multistep"
    ELSE "direct"

\* processImage lines 1170-1185
SelectStrategy(f, targetWidth, targetHeight) ==
    IF f.size > HUGE_IMAGE_THRESHOLD THEN "chunked"
    ELSE IF f.size > LARGE_IMAGE_THRESHOLD
            \/ f.w > targetWidth * 3
            \/ f.h > targetHeight * 3 THEN "multistep"
    ELSE "direct"

\* A slip: the byte size is compared with the pixel ceiling.
ExceedsPixelLimit_ByteSize(f) == f.size > MAX_PIXELS

\* processImage line 1151
ExceedsPixelLimit(f) == f.w * f.h > MAX_PIXELS

\* The finally block of processImage (line 1226): it runs when the promise
\* of a processImage invocation settles, and only then.
Finally(r, flag) ==
    IF PIKind(r.kind) /\ r.pc \in {"resolved", "rejected"} THEN FALSE ELSE flag

\* A segment ends: the call's record and the URL set are written back.
Write(i, r, urls) ==
    /\ inv' = [inv EXCEPT ![i] = r]
    /\ activeObjectUrls' = urls
    /\ isProcessing' = Finally(r, isProcessing)
    /\ UNCHANGED ncalls

\* A call of processImage, directly or through processImageToUrl (which
\* awaits processImage and adds nothing before it resolves): lines 1114-1138.
CallProcessImage(i, f, fault) ==
    /\ UNCHANGED notOrch
    /\ i = ncalls + 1
    /\ inv[i].pc = "idle"
    /\ ncalls' = i
    /\ LET r == [IdleInv EXCEPT !.kind = "processImage", !.file = f]
       IN  IF isProcessing
           THEN \* thrown before the try block: the finally does not run
                /\ inv' = [inv EXCEPT ![i] = Reject(r, "busy")]
                /\ UNCHANGED <<isProcessing, activeObjectUrls>>
           ELSE IF f.size > MAX_FILE_SIZE
           THEN /\ inv' = [inv EXCEPT ![i] = Reject(r, "fileTooLarge")]
                /\ isProcessing' = FALSE
                /\ UNCHANGED activeObjectUrls
           ELSE IF fault = "p5"
           THEN /\ inv' = [inv EXCEPT ![i] = Reject(Report(r, <<5>>), "callback")]
                /\ isProcessing' = FALSE
                /\ UNCHANGED activeObjectUrls
           ELSE /\ inv' = [inv EXCEPT ![i] =
                              Report([r EXCEPT !.pc = "previewLoad",
                                               !.decodes = 1], <<5>>)]
                /\ isProcessing' = TRUE
                /\ activeObjectUrls' = Track(activeObjectUrls, Url(i, "previewSrc"))

\* A direct call of generatePreview: lines 1077-1078.
CallGeneratePreview(i, f) ==
    /\ UNCHANGED notOrch
    /\ i = ncalls + 1
    /\ inv[i].pc = "idle"
    /\ ncalls' = i
    /\ inv' = [inv EXCEPT ![i] =
                  [IdleInv EXCEPT !.kind = "generatePreview", !.file = f,
                                  !.pc = "previewLoad", !.decodes = 1]]
    /\ activeObjectUrls' = Track(activeObjectUrls, Url(i, "previewSrc"))
    /\ UNCHANGED isProcessing

\* The preview's image element fires onload or onerror: lines 811-819, 1078-1087.
PreviewLoaded(i, ok) ==
    /\ UNCHANGED notOrch
    /\ inv[i].pc = "previewLoad"
    /\ LET r == inv[i]
       IN  IF ~ok
           THEN Write(i, Reject(r, "decode"),
                      Revoke(activeObjectUrls, Url(i, "previewSrc")))
           ELSE \* _calculateDimensions, _processDirect, then await toBlob
                Write(i, [r EXCEPT !.pc = "previewEncode",
                                   !.live = @ \cup {"preview"},
                                   !.allocs = @ + 1],
                      activeObjectUrls)

\* A slip: the preview is handed over after the checkpoint that follows it.
PreviewDelivery_AfterCheckpoint(r) ==
    [r EXCEPT !.previews = @ + 1, !.previewAt = 15]

\* onPreview(preview.url), line 1139: previewAt is the last progress value the
\* consumer had been given when the preview was handed over
PreviewDelivery(r) ==
    [r EXCEPT !.previews = @ + 1, !.previewAt = r.prog]

\* The preview's toBlob callback: lines 1021-1026, 1087-1101, then for
\* processImage lines 1139-1143.
PreviewEncoded(i, ok, fault) ==
    /\ UNCHANGED notOrch
    /\ inv[i].pc = "previewEncode"
    /\ LET r == inv[i]
           done == [r EXCEPT !.live = @ \ {"preview"}]
           urls == Track(Revoke(activeObjectUrls, Url(i, "previewSrc")),
                         Url(i, "preview"))
       IN  IF ~ok
           THEN Write(i, Reject(r, "encode"), activeObjectUrls)
           ELSE IF r.kind = "generatePreview"
           THEN Write(i, Resolve(done), urls)
           ELSE IF fault = "onPreview"
           THEN Write(i, Reject(PreviewDelivery(done), "callback"), urls)
           ELSE IF fault = "p15"
           THEN Write(i, Reject(Report(PreviewDelivery(done), <<15>>),
                                "callback"), urls)
           ELSE Write(i, Report([PreviewDelivery(done) EXCEPT
                                     !.pc = "fullLoad", !.decodes = @ + 1],
                                <<15>>),
                      Track(urls, Url(i, "src")))

\* Lines 1187-1193: after the resize the source URL is revoked, progress 75
\* is reported and _optimizeBlobSize starts its first encode.
AfterResize(i, r, urls, fault) ==
    IF fault = "p75"
    THEN Write(i, Reject(Report(r, <<75>>), "callback"), Revoke(urls, Url(i, "src")))
    ELSE Write(i, Report([r EXCEPT !.pc = "encode", !.enc = 0], <<75>>),
               Revoke(urls, Url(i, "src")))

\* A slip: the base of the resize phase is left out.
ChunkPercent_NoBase(processedChunks, totalChunks) ==
    MathRound(processedChunks * 40, totalChunks)

\* _processInChunks line 934: the percentage reported after a chunk
ChunkPercent(processedChunks, totalChunks) ==
    35 + MathRound(processedChunks * 40, totalChunks)

\* _processInChunks lines 894-942 from chunk number `from` + 1 up to the next
\* yield (processedChunks % 4 = 0) or the end of the loop.  Every chunk
\* allocates one temporary canvas and releases it again.
RunChunks(i, r, urls, fault) ==
    LET total == ChunksTotal(r.file)
        from  == r.chunks
        upto  == Min2(total, (from \div 4) * 4 + 4)
        n     == upto - from
        prog  == [k \in 1 .. n |-> ChunkPercent(from + k, total)]
    IN  IF fault = "pchunk"
        THEN \* onProgress throws after the first chunk of this segment
             Write(i, Reject(Report([r EXCEPT !.chunks = from + 1, !.allocs = @ + 1],
                                    <<prog[1]>>), "callback"),
                   urls)
        ELSE IF upto % 4 = 0
        THEN \* await setTimeout(0); the loop resumes in a later task
             Write(i, Report([r EXCEPT !.pc = "chunks", !.chunks = upto,
                                       !.allocs = @ + n], prog), urls)
        ELSE AfterResize(i, Report([r EXCEPT !.chunks = upto, !.allocs = @ + n],
                                   prog), urls, fault)

\* The full image's onload / onerror: lines 811-819 and 1143-1193.
FullLoaded(i, ok, fault) ==
    /\ UNCHANGED notOrch
    /\ inv[i].pc = "fullLoad"
    /\ LET r    == inv[i]
           f    == r.file
           dims == IPCalculateDimensions(f.w, f.h, MAX_WIDTH, MAX_HEIGHT,
                                         OrchScreen.w, OrchScreen.h)
           strategy == SelectStrategy(f, dims.width, dims.height)
           planned  == Report([r EXCEPT !.tw = dims.width, !.th = dims.height,
                                        !.strategy = strategy], <<30, 35>>)
           withOut  == [planned EXCEPT !.live = @ \cup {"out"}, !.allocs = @ + 1]
       IN  IF ~ok
           THEN Write(i, Reject(r, "decode"), Revoke(activeObjectUrls, Url(i, "src")))
           ELSE IF fault = "p30"
           THEN \* onProgress(30) throws inside onload: resolve(img) is never
                \* reached and the promise of _loadImageFromFile never settles
                Write(i, Report([r EXCEPT !.pc = "hung"], <<30>>), activeObjectUrls)
           ELSE IF fault = "p35"
           THEN Write(i, Reject(Report(r, <<30, 35>>), "callback"), activeObjectUrls)
           ELSE IF ExceedsPixelLimit(f)
           THEN Write(i, Reject(Report(r, <<30, 35>>), "pixels"),
                      Revoke(Revoke(activeObjectUrls, Url(i, "src")), Url(i, "preview")))
           ELSE IF fault = "resize"
           THEN \* a canvas operation of the resize throws
                Write(i, Reject(withOut, "resize"), activeObjectUrls)
           ELSE IF strategy = "chunked"
           THEN RunChunks(i, withOut, activeObjectUrls, fault)
           ELSE IF fault = "p70"
           THEN Write(i, Reject(Report(withOut, <<70>>), "callback"), activeObjectUrls)
           ELSE AfterResize(i, Report(withOut, <<70>>), activeObjectUrls, fault)

\* _processInChunks resumes after a yield.
ChunksResumed(i, fault) ==
    /\ UNCHANGED notOrch
    /\ inv[i].pc = "chunks"
    /\ IF inv[i].chunks = ChunksTotal(inv[i].file)
       THEN AfterResize(i, inv[i], activeObjectUrls, fault)
       ELSE RunChunks(i, inv[i], activeObjectUrls, fault)

\* One toBlob callback of _optimizeBlobSize (lines 1040-1068), then lines
\* 1195-1205.  outcome is the blob's size relative to the target, or "fail"
\* when toBlob yields no blob.
EncodeOutcomes == {"fail", "over", "under", "close"}

Encoded(i, outcome, fault) ==
    /\ UNCHANGED notOrch
    /\ inv[i].pc = "encode"
    /\ LET r == inv[i]
           finished ==
               \/ r.enc = 0 /\ outcome \in {"under", "close"}
               \/ r.enc > 0 /\ outcome = "close"
               \/ r.enc = 5
       IN  IF outcome = "fail"
           THEN Write(i, Reject(r, "encode"), activeObjectUrls)
           ELSE IF ~finished
           THEN Write(i, [r EXCEPT !.enc = @ + 1], activeObjectUrls)
           ELSE IF fault = "p90"
           THEN Write(i, Reject(Report(r, <<90>>), "callback"), activeObjectUrls)
           ELSE Write(i, Report([r EXCEPT !.pc = "gc", !.live = @ \ {"out"}], <<90>>),
                      Revoke(activeObjectUrls, Url(i, "preview")))

\* The timer of _hintGC fires: lines 1205-1227.  toUrl: the call came through
\* processImageToUrl, which now tracks a URL for the result (lines 1237-1244).
GcDone(i, fault, toUrl) ==
    /\ UNCHANGED notOrch
    /\ inv[i].pc = "gc"
    /\ LET r    == inv[i]
           done == Report(r, <<100>>)
       IN  IF fault = "p100"
           THEN Write(i, Reject(done, "callback"), activeObjectUrls)
           ELSE IF toUrl
           THEN Write(i, Resolve([done EXCEPT !.kind = "processImageToUrl"]),
                      Track(activeObjectUrls, Url(i, "result")))
           ELSE Write(i, Resolve(done), activeObjectUrls)

----------------------------------------------------------------------------
(* The image worker and its WASM bridge: src/src/image-worker.js *)

InitIds == 1 .. MaxInits

ReqIds == (MaxInits + 1) .. (MaxInits + MaxReqs)

\* processImageData waits for the module in timers of POLL_MS while less than
\* WAIT_MS have elapsed
WAIT_MS == 500
POLL_MS == 50

\* a timer never fires early, so after this many polls WAIT_MS have elapsed
WaitPolls == WAIT_MS \div POLL_MS

\* sources above this many pixels are drawn in chunks by the software path
CHUNKED_PIXELS == 20 * 1000 * 1000

\* CONFIG.WASM_AUTO_ENABLE_THRESHOLD: declared, read nowhere
WASM_AUTO_ENABLE_THRESHOLD == 20 * 1000 * 1000

\* generatePreview: maxSize || 400
PREVIEW_MAX_DIM == 400

PAGE_SIZE == 64 * 1024

\* CONFIG as the script defines it; only the fields the bridge reads.
\* WASM_URL: TRUE when a URL is set, FALSE for null
\* CHUNK_SIZE: the chunk edge of the software path
InitialConfig == [WASM_ENABLED |-> FALSE, WASM_URL |-> FALSE, CHUNK_SIZE |-> CHUNK_SIZE]

\* the chunk edges an 'init' message sets: the default and a small one
ChunkEdges == {CHUNK_SIZE, CHUNK_SIZE \div 8}

Configs == [WASM_ENABLED : BOOLEAN, WASM_URL : BOOLEAN, CHUNK_SIZE : ChunkEdges]

\* WASM as the script defines it. exports = {} stands for null (instance is
\* null exactly when exports is): a loaded module exports at least
\* resize_rgba and memory.
InitialWasm ==
    [ready |-> FALSE, exports |-> {}, allocPtr |-> 0, heapCapacity |-> 0,
     hasNearest |-> FALSE, hasLanczos |-> FALSE, hasGammaCorrect |-> FALSE]

Required == {"resize_rgba", "memory"}

Allocator == {"alloc_memory", "dealloc_memory"}

Kernels == {"resize_rgba_nearest", "resize_rgba_lanczos", "resize_rgba_gamma_bilinear"}

\* the byte length of a fresh module's memory
ModuleHeap == 17 * PAGE_SIZE

\* What fetch + instantiate can deliver: the export sets of a module
Modules ==
    { Required,
      Required \cup Allocator,
      Required \cup Allocator \cup Kernels \cup {"get_last_error"},
      Required \cup Allocator \cup {"resize_rgba_nearest"},
      {"memory"} \cup Allocator \cup Kernels,
      {"resize_rgba", "resize_rgba_nearest", "resize_rgba_lanczos"} }

\* fetch or instantiate fails: no instance at all
FetchFailed == {"fetch failed"}

LoadOutcomes == Modules \cup {FetchFailed}

\* loadWasm after its awaits: the checks, the assignments and the catch block
LoadResult(W, m) ==
    LET torn  == [W EXCEPT !.ready = FALSE, !.exports = {}]
        flags == [W EXCEPT
                    !.hasNearest = @ \/ "resize_rgba_nearest" \in m,
                    !.hasLanczos = @ \/ "resize_rgba_lanczos" \in m,
                    !.hasGammaCorrect = @ \/ "resize_rgba_gamma_bilinear" \in m]
    IN  IF m = FetchFailed THEN torn
        ELSE IF "resize_rgba" \notin m THEN torn
        ELSE IF "memory" \notin m
             THEN [flags EXCEPT !.ready = FALSE, !.exports = {}]
        ELSE [flags EXCEPT !.ready = TRUE, !.exports = m,
                           !.allocPtr = 0, !.heapCapacity = ModuleHeap]

\* pointers: wasmAlloc returns null when it cannot allocate
NullPtr == -1

\* the bump allocator; growOk: whether memory.grow succeeds
wasmAlloc(W, size, growOk) ==
    LET alignedSize == ((size + 7) \div 8) * 8
        needed      == W.allocPtr + alignedSize
        growPages   == MathCeil(needed - W.heapCapacity, PAGE_SIZE)
    IN  IF "memory" \notin W.exports THEN [ptr |-> NullPtr, W |-> W]
        ELSE IF needed > W.heapCapacity /\ ~growOk THEN [ptr |-> NullPtr, W |-> W]
        ELSE [ptr |-> W.allocPtr,
              W   |-> [W EXCEPT !.allocPtr = needed,
                                !.heapCapacity =
                                    IF needed > @ THEN @ + growPages * PAGE_SIZE ELSE @]]

\* What the module and the platform do during one call of the bridge:
\* the pointers alloc_memory returns (0: failure), where an exception is
\* thrown if anywhere, the kernel's return code, whether memory.grow works
Normal == [alloc1 |-> 8, alloc2 |-> 16, throwAt |-> "none", code |-> 0, growOk |-> TRUE]

ThrowPoints == {"alloc1", "alloc2", "copy", "kernel", "output", "canvas"}

Behaviours ==
    {Normal}
    \cup {[Normal EXCEPT !.throwAt = t] : t \in ThrowPoints}
    \cup {[Normal EXCEPT !.alloc1 = 0], [Normal EXCEPT !.alloc2 = 0],
          [Normal EXCEPT !.alloc1 = 0, !.alloc2 = 0],
          [Normal EXCEPT !.alloc1 = 0, !.throwAt = "alloc2"],
          [Normal EXCEPT !.code = 2], [Normal EXCEPT !.growOk = FALSE]}

\* the bridge is called only when WASM is ready: nothing to choose otherwise
BehavioursFor(W) ==
    IF W.ready THEN Behaviours
    ELSE {Normal}

NoCanvas == [by |-> "null", w |-> 0, h |-> 0]

Canvas(by, w, h) == [by |-> by, w |-> w, h |-> h]

\* A slip: the flags recorded by loadWasm are trusted, the exports are not
\* looked at.
SelectKernel_FlagsOnly(W, options) ==
    IF options.gammaCorrect /\ W.hasGammaCorrect THEN "resize_rgba_gamma_bilinear"
    ELSE IF options.algorithm = "nearest" /\ W.hasNearest THEN "resize_rgba_nearest"
    ELSE IF options.algorithm = "lanczos" /\ W.hasLanczos THEN "resize_rgba_lanczos"
    ELSE IF "resize_rgba" \in W.exports THEN "resize_rgba"
    ELSE "none"

\* processImageDataWithWasm: the kernel chosen for the caller's options
SelectKernel(W, options) ==
    IF /\ options.gammaCorrect /\ W.hasGammaCorrect
       /\ "resize_rgba_gamma_bilinear" \in W.exports
    THEN "resize_rgba_gamma_bilinear"
    ELSE IF /\ options.algorithm = "nearest" /\ W.hasNearest
            /\ "resize_rgba_nearest" \in W.exports
    THEN "resize_rgba_nearest"
    ELSE IF /\ options.algorithm = "lanczos" /\ W.hasLanczos
            /\ "resize_rgba_lanczos" \in W.exports
    THEN "resize_rgba_lanczos"
    ELSE IF "resize_rgba" \in W.exports THEN "resize_rgba"
    ELSE "none"

\* processImageDataWithWasm. The result: the canvas (NoCanvas for null), the
\* WASM record afterwards, the values passed to onProgress, the kernel, how
\* the call ended, and how many alloc_memory buffers were obtained and how
\* many dealloc_memory calls were made.
processImageDataWithWasm(W, img, targetWidth, targetHeight, options, b) ==
    LET kernel  == SelectKernel(W, options)
        W0      == [W EXCEPT !.allocPtr = 0]
        srcSize == img.w * img.h * 4
        dstSize == targetWidth * targetHeight * 4
        own     == "alloc_memory" \in W.exports
        a1      == IF own THEN [ptr |-> b.alloc1, W |-> W0]
                          ELSE wasmAlloc(W0, srcSize, b.growOk)
        a2      == IF own THEN [ptr |-> b.alloc2, W |-> a1.W]
                          ELSE wasmAlloc(a1.W, dstSize, b.growOk)
        n1      == IF own /\ a1.ptr # 0 THEN 1 ELSE 0
        n2      == IF own /\ a2.ptr # 0 THEN 1 ELSE 0
        frees   == IF "dealloc_memory" \in W.exports THEN 2 ELSE 0
        End(how, canvas, W1, progress, allocated, freed) ==
            [canvas |-> canvas, WASM |-> W1, progress |-> progress,
             kernel |-> kernel, outcome |-> how,
             allocated |-> allocated, freed |-> freed]
    IN  IF W.exports = {} \/ "memory" \notin W.exports
        THEN End("noExports", NoCanvas, W, <<>>, 0, 0)
        ELSE IF kernel = "none"
        THEN End("noKernel", NoCanvas, W, <<>>, 0, 0)
        ELSE IF own /\ b.throwAt = "alloc1"
        THEN End("exception", NoCanvas, W0, <<>>, 0, 0)
        ELSE IF own /\ b.throwAt = "alloc2"
        THEN End("exception", NoCanvas, W0, <<>>, n1, 0)
        ELSE IF a1.ptr = NullPtr \/ a2.ptr = NullPtr \/ a1.ptr = 0 \/ a2.ptr = 0
        THEN End("allocation", NoCanvas, a2.W, <<>>, n1 + n2, 0)
        ELSE IF b.throwAt \in {"copy", "kernel"}
        THEN End("exception", NoCanvas, a2.W, <<>>, n1 + n2, 0)
        ELSE IF b.code # 0
        THEN End("errorCode", NoCanvas, a2.W, <<>>, n1 + n2, frees)
        ELSE IF b.throwAt = "output" \/ targetWidth = 0 \/ targetHeight = 0
        THEN End("exception", NoCanvas, a2.W, <<70>>, n1 + n2, 0)
        ELSE IF b.throwAt = "canvas"
        THEN End("exception", NoCanvas, a2.W, <<70>>, n1 + n2, frees)
        ELSE End("ok", Canvas("wasm", targetWidth, targetHeight), a2.W, <<70>>,
                 n1 + n2, frees)

\* Messages posted to the main thread
Message(type) == [type |-> type, progress |-> -1, width |-> 0, height |-> 0]

Progress(p) == [type |-> "progress", progress |-> p, width |-> 0, height |-> 0]

Result(type, w, h) == [type |-> type, progress |-> -1, width |-> w, height |-> h]

\* the onProgress callback of the 'process' handler forwards only key stages
Forwarded(values) ==
    LET key == SelectSeq(values, LAMBDA p : p \in {35, 70, 90})
    IN  [k \in 1 .. Len(key) |-> Progress(key[k])]

\* the software path's chunk loop: the values it passes to onProgress
ChunkProgress(img, chunkSize) ==
    LET totalChunks == MathCeil(img.w, chunkSize) * MathCeil(img.h, chunkSize)
    IN  IF img.w * img.h > CHUNKED_PIXELS
        THEN [j \in 1 .. (totalChunks \div 4) |->
                 35 + MathRound(4 * j * 40, totalChunks)]
        ELSE <<>>

\* the software path's chunk loop (lines 144-165) has no await: the tiles it
\* draws between createImageBitmap and the return of processImageData
TilesDrawn(img, chunkSize) ==
    IF img.w * img.h > CHUNKED_PIXELS
    THEN MathCeil(img.w, chunkSize) * MathCeil(img.h, chunkSize)
    ELSE 0

\* The data of the requests
WorkerImages == { [w |-> 400, h |-> 300], [w |-> 6000, h |-> 4000] }

NoImage == [w |-> 0, h |-> 0]

DefaultOptions == [gammaCorrect |-> FALSE, algorithm |-> "auto"]

ProcessOptions ==
    { DefaultOptions,
      [gammaCorrect |-> TRUE, algorithm |-> "auto"],
      [gammaCorrect |-> FALSE, algorithm |-> "nearest"],
      [gammaCorrect |-> TRUE, algorithm |-> "lanczos"],
      [gammaCorrect |-> TRUE, algorithm |-> "bilinear"] }

ProcessData ==
    [mode : {"imageData"}, img : WorkerImages, options : ProcessOptions]
    \cup [mode : {"imageBitmap", "alreadyScaled"}, img : WorkerImages,
          options : {DefaultOptions}]

\* One request: the handler's position and locals, and what happened to it.
\* polls: the timers of the wait loop that have fired, while it runs
\* expired: the wait loop ended because WAIT_MS had elapsed
\* received: CONFIG as it was when the 'process' message arrived
IdleReq ==
    [pc |-> "idle", kind |-> "none", mode |-> "none", img |-> NoImage,
     options |-> DefaultOptions, targetWidth |-> 0, targetHeight |-> 0,
     enabled |-> FALSE, polls |-> 0, bridge |-> "none", kernel |-> "none",
     canvas |-> NoCanvas, failure |-> "none", allocated |-> 0, freed |-> 0,
     tiles |-> 0, expired |-> FALSE, received |-> InitialConfig]

Step(r, W, msgs) == [r |-> r, W |-> W, msgs |-> msgs]

\* A slip: the catch block swallows the error and posts nothing.
Failed_Silent(r, W, msgs, why) ==
    Step([r EXCEPT !.pc = "done", !.failure = why], W, msgs)

\* the catch block of onmessage
Failed(r, W, msgs, why) ==
    Step([r EXCEPT !.pc = "done", !.failure = why], W,
         msgs \o <<Message("error")>>)

\* 'process' after the canvas is there: progress 75, then optimizeBlobSize up
\* to its first encode (it reads the canvas first: a null canvas throws)
ToEncode(r, W, msgs) ==
    IF r.canvas = NoCanvas
    THEN Failed(r, W, msgs \o <<Progress(75)>>, "canvas")
    ELSE Step([r EXCEPT !.pc = "encode"], W, msgs \o <<Progress(75)>>)

\* processImageData: whether the bridge's result is returned as it is
UseWasmResult_Always(res) == TRUE

UseWasmResult(res) == res.canvas # NoCanvas

\* A slip: a module that is still not ready after the wait fails the request.
AfterWait_NoFallback(r, W, b) ==
    IF r.enabled /\ W.ready
    THEN LET res  == processImageDataWithWasm(W, r.img, r.targetWidth,
                                              r.targetHeight, r.options, b)
             r1   == [r EXCEPT !.bridge = res.outcome, !.kernel = res.kernel,
                               !.allocated = res.allocated, !.freed = res.freed]
             msgs == Forwarded(res.progress)
         IN  IF UseWasmResult(res)
             THEN ToEncode([r1 EXCEPT !.canvas = res.canvas], res.WASM, msgs)
             ELSE Step([r1 EXCEPT !.pc = "bitmap"], res.WASM, msgs)
    ELSE IF r.enabled
    THEN Failed([r EXCEPT !.bridge = "notReady"], W, <<>>, "wasm")
    ELSE Step([r EXCEPT !.pc = "bitmap", !.bridge = "none"], W, <<>>)

\* processImageData after the wait: the WASM attempt, then either its canvas
\* or the software path up to createImageBitmap
AfterWait(r, W, b) ==
    IF r.enabled /\ W.ready
    THEN LET res  == processImageDataWithWasm(W, r.img, r.targetWidth,
                                              r.targetHeight, r.options, b)
             r1   == [r EXCEPT !.bridge = res.outcome, !.kernel = res.kernel,
                               !.allocated = res.allocated, !.freed = res.freed]
             msgs == Forwarded(res.progress)
         IN  IF UseWasmResult(res)
             THEN ToEncode([r1 EXCEPT !.canvas = res.canvas], res.WASM, msgs)
             ELSE Step([r1 EXCEPT !.pc = "bitmap"], res.WASM, msgs)
    ELSE Step([r EXCEPT !.pc = "bitmap",
                        !.bridge = IF r.enabled THEN "notReady" ELSE "none"],
              W, <<>>)

\* processImageData from its call to its first await
EnterProcessImageData(r, W, C, b) ==
    LET r1 == [r EXCEPT !.enabled = C.WASM_ENABLED]
    IN  IF C.WASM_ENABLED /\ ~W.ready /\ C.WASM_URL
        THEN Step([r1 EXCEPT !.pc = "wasmWait", !.polls = 1], W, <<>>)
        ELSE AfterWait(r1, W, b)

Commit(id, s) ==
    /\ req' = [req EXCEPT ![id] = s.r]
    /\ WASM' = s.W
    /\ posted' = [posted EXCEPT ![id] = @ \o s.msgs]

\* onmessage 'init': the config is merged, loadWasm is called if enabled and
\* runs to its first await (or returns at once when WASM is ready, and then
\* its notification follows 'ready')
InitMessage(id, config) ==
    /\ id \in InitIds
    /\ posted[id] = <<>>
    /\ \A j \in InitIds : j < id => posted[j] # <<>>
    /\ CONFIG' = config
    /\ IF config.WASM_ENABLED /\ config.WASM_URL
       THEN IF WASM.ready
            THEN /\ posted' = [posted EXCEPT
                                 ![id] = <<Message("ready"), Message("wasmLoaded")>>]
                 /\ UNCHANGED loading
            ELSE /\ posted' = [posted EXCEPT ![id] = <<Message("ready")>>]
                 /\ loading' = loading \cup {id}
       ELSE /\ posted' = [posted EXCEPT ![id] = <<Message("ready")>>]
            /\ UNCHANGED loading
    /\ UNCHANGED <<WASM, req>>
    /\ UNCHANGED notWorker

\* loadWasm resumes after fetch and instantiate and runs to its end; the
\* promise it returns is fulfilled either way
LoadFinished(id, m) ==
    /\ id \in loading
    /\ WASM' = LoadResult(WASM, m)
    /\ loading' = loading \ {id}
    /\ posted' = [posted EXCEPT ![id] = Append(@, Message("wasmLoaded"))]
    /\ UNCHANGED <<CONFIG, req>>
    /\ UNCHANGED notWorker

\* onmessage 'process', up to its first await
ProcessMessage(id, data, b) ==
    /\ req[id].pc = "idle"
    /\ LET r0   == [IdleReq EXCEPT !.kind = "process", !.mode = data.mode,
                                   !.img = data.img, !.options = data.options,
                                   !.received = CONFIG]
           dims == calculateDimensions(data.img.w, data.img.h,
                                       MAX_WIDTH, MAX_HEIGHT, Rat(0, 1), Rat(0, 1))
           r1   == [r0 EXCEPT !.targetWidth = dims.width,
                              !.targetHeight = dims.height]
       IN  IF data.mode = "alreadyScaled"
           THEN Commit(id, ToEncode([r0 EXCEPT
                                       !.targetWidth = data.img.w,
                                       !.targetHeight = data.img.h,
                                       !.canvas = Canvas("copy", data.img.w, data.img.h)],
                                    WASM, <<Progress(60)>>))
           ELSE IF data.mode = "imageBitmap"
           THEN Commit(id, ToEncode([r1 EXCEPT
                                       !.canvas = Canvas("draw", dims.width, dims.height)],
                                    WASM, <<>>))
           ELSE Commit(id, EnterProcessImageData(r1, WASM, CONFIG, b))
    /\ UNCHANGED <<CONFIG, loading>>
    /\ UNCHANGED notWorker

\* a 50 ms timer of the wait loop fires: the loop ends when the module is
\* ready or WAIT_MS have elapsed, and its locals end with it
PollTimer(id, expired, b) ==
    /\ req[id].pc = "wasmWait"
    /\ expired \/ req[id].polls < WaitPolls
    /\ IF WASM.ready \/ expired
       THEN Commit(id, AfterWait([req[id] EXCEPT !.polls = 0,
                                                !.expired = ~WASM.ready],
                                 WASM, b))
       ELSE Commit(id, Step([req[id] EXCEPT !.polls = @ + 1], WASM, <<>>))
    /\ UNCHANGED <<CONFIG, loading>>
    /\ UNCHANGED notWorker

\* createImageBitmap settles: the software path draws (in chunks above
\* 20 MP) and returns its canvas; generatePreview draws and starts encoding
BitmapCreated(id, ok) ==
    /\ req[id].pc = "bitmap"
    /\ LET r == req[id]
       IN  IF ~ok THEN Commit(id, Failed(r, WASM, <<>>, "software"))
           ELSE IF r.kind = "generatePreview"
           THEN Commit(id, Step([r EXCEPT
                                   !.pc = "encode",
                                   !.canvas = Canvas("software", r.targetWidth,
                                                     r.targetHeight)],
                                WASM, <<>>))
           ELSE Commit(id, ToEncode([r EXCEPT
                                       !.canvas = Canvas("software", r.targetWidth,
                                                         r.targetHeight),
                                       !.tiles = TilesDrawn(r.img, CONFIG.CHUNK_SIZE)],
                                    WASM, Forwarded(ChunkProgress(r.img, CONFIG.CHUNK_SIZE))))
    /\ UNCHANGED <<CONFIG, loading>>
    /\ UNCHANGED notWorker

\* optimizeBlobSize (or the preview's convertToBlob) settles
BlobReady(id, ok) ==
    /\ req[id].pc = "encode"
    /\ LET r == req[id]
       IN  IF ~ok THEN Commit(id, Failed(r, WASM, <<>>, "encode"))
           ELSE IF r.kind = "generatePreview"
           THEN Commit(id, Step([r EXCEPT !.pc = "done"], WASM,
                                <<Result("previewComplete", r.targetWidth,
                                         r.targetHeight)>>))
           ELSE Commit(id, Step([r EXCEPT !.pc = "done"], WASM,
                                <<Progress(95),
                                  Result("complete", r.targetWidth, r.targetHeight)>>))
    /\ UNCHANGED <<CONFIG, loading>>
    /\ UNCHANGED notWorker

\* onmessage 'generatePreview', up to createImageBitmap
PreviewMessage(id, img) ==
    /\ req[id].pc = "idle"
    /\ LET dims == calculateDimensions(img.w, img.h, PREVIEW_MAX_DIM, PREVIEW_MAX_DIM,
                                       Rat(PREVIEW_MAX_DIM, 1), Rat(PREVIEW_MAX_DIM, 1))
       IN  Commit(id, Step([IdleReq EXCEPT !.kind = "generatePreview", !.pc = "bitmap",
                                           !.img = img,
                                           !.targetWidth = dims.width,
                                           !.targetHeight = dims.height],
                           WASM, <<>>))
    /\ UNCHANGED <<CONFIG, loading>>
    /\ UNCHANGED notWorker

\* onmessage with any other type
UnknownMessage(id) ==
    /\ req[id].pc = "idle"
    /\ Commit(id, Failed([IdleReq EXCEPT !.kind = "unknown"], WASM, <<>>, "type"))
    /\ UNCHANGED <<CONFIG, loading>>
    /\ UNCHANGED notWorker

\* Interleaved requests: the ids of MaxFlight requests, and the messages,
\* modules and bridge behaviours they are run with
FlightIds == (MaxInits + 1) .. (MaxInits + MaxFlight)

FlightConfigs ==
    { [WASM_ENABLED |-> TRUE, WASM_URL |-> TRUE, CHUNK_SIZE |-> CHUNK_SIZE \div 8] }

FlightOutcomes ==
    { Required \cup Allocator \cup Kernels \cup {"get_last_error"}, FetchFailed }

FlightBehaviours == {Normal, [Normal EXCEPT !.code = 2]}

FlightImages == { [w |-> 6000, h |-> 4000] }

FlightData ==
    [mode : {"imageData", "imageBitmap", "alreadyScaled"}, img : FlightImages,
     options : {DefaultOptions}]

----------------------------------------------------------------------------
(* The chunked strategy: _processInChunks (part_001) and the chunk loop of
   processImageData (image-worker.js) *)

NoChunkIn == [w |-> 0, h |-> 0, tw |-> 0, th |-> 0, chunkSize |-> 0]

\* source sizes, target sizes no larger than the source, chunk edges: small
\* rectangles, and longer strips one pixel high
ChunkInputs ==
    { in \in [w : 1 .. MaxChunkSrc, h : 1 .. MaxChunkSrc, tw : 1 .. MaxChunkSrc,
              th : 1 .. MaxChunkSrc, chunkSize : 1 .. MaxEdge] :
        in.tw <= in.w /\ in.th <= in.h }
    \cup
    { in \in [w : 1 .. MaxStripSrc, h : {1}, tw : 1 .. MaxStripSrc,
              th : {1}, chunkSize : 1 .. MaxEdge] :
        in.tw <= in.w }

\* the chunks <<cx, cy>> the two loops visit
Chunks(in) ==
    (0 .. MathCeil(in.w, in.chunkSize) - 1) \X (0 .. MathCeil(in.h, in.chunkSize) - 1)

\* the loops visit the chunks row by row
ForwardIndex(in, c) == c[2] * MathCeil(in.w, in.chunkSize) + c[1] + 1

\* the destination rectangle of a chunk: dx, dy, dw, dh
DestRect(in, c) ==
    LET sx == c[1] * in.chunkSize
        sy == c[2] * in.chunkSize
        sw == Min2(in.chunkSize, in.w - sx)
        sh == Min2(in.chunkSize, in.h - sy)
    IN  [dx |-> MathRound(sx * in.tw, in.w),
         dy |-> MathRound(sy * in.th, in.h),
         dw |-> Max2(1, MathRound(sw * in.tw, in.w)),
         dh |-> Max2(1, MathRound(sh * in.th, in.h))]

Pixels(in) == (0 .. in.tw - 1) \X (0 .. in.th - 1)

Covers(in, c, p) ==
    LET d == DestRect(in, c)
    IN  /\ d.dx <= p[1] /\ p[1] < d.dx + d.dw
        /\ d.dy <= p[2] /\ p[2] < d.dy + d.dh

\* the canvas as _createCanvas returns it: no chunk shows anywhere
NoChunk == <<-1, -1>>

BlankSurface(in) == [p \in Pixels(in) |-> NoChunk]

\* drawImage of one chunk onto the opaque destination: the pixels of its
\* rectangle now show this chunk's scaled samples, the others are kept
DrawChunk(in, sfc, c) ==
    [p \in Pixels(in) |-> IF Covers(in, c, p) THEN c ELSE sfc[p]]

\* the loops as written: all chunks in forward order, from chunk number k
RECURSIVE ForwardFrom(_, _, _)
ForwardFrom(in, sfc, k) ==
    IF k > Cardinality(Chunks(in)) THEN sfc
    ELSE LET c == CHOOSE c \in Chunks(in) : ForwardIndex(in, c) = k
         IN  ForwardFrom(in, DrawChunk(in, sfc, c), k + 1)

ForwardSurface(in) == ForwardFrom(in, BlankSurface(in), 1)

\* the loop body run for the chunks in any order
Composite(c) ==
    /\ c \in Chunks(chunkIn) \ drawn
    /\ surface' = DrawChunk(chunkIn, surface, c)
    /\ drawn' = drawn \cup {c}
    /\ UNCHANGED chunkIn
    /\ UNCHANGED notChunk

----------------------------------------------------------------------------
(* ImageProcessor._processWithSteps: multi-step downscaling *)

NoStepIn == [w |-> 0, h |-> 0, targetWidth |-> 0, targetHeight |-> 0]

NoSteps ==
    [pc |-> "idle", currentWidth |-> 0, currentHeight |-> 0, source |-> "none",
     n |-> 0, result |-> "none", width |-> 0, height |-> 0,
     live |-> {}, atCreate |-> {}]

\* The calls processImage can make (line 1180): an image and the target
\* _calculateDimensions planned for it under some maximum, on a display at
\* least as large as the maximum.  A file of any dimensions can exceed the
\* large threshold, so the byte size excludes no pair.
StepInputs ==
    { [w |-> w, h |-> h,
       targetWidth  |-> IPCalculateDimensions(w, h, maxW, maxH,
                                              Rat(maxW, 1), Rat(maxH, 1)).width,
       targetHeight |-> IPCalculateDimensions(w, h, maxW, maxH,
                                              Rat(maxW, 1), Rat(maxH, 1)).height] :
        w \in 1 .. MaxStepSrc, h \in 1 .. MaxStepSrc,
        maxW \in 1 .. MaxStepBox, maxH \in 1 .. MaxStepBox }

\* lines 968-970
EnterSteps(in) ==
    [NoSteps EXCEPT !.pc = "loop", !.currentWidth = in.w, !.currentHeight = in.h,
                    !.source = "img"]

\* the loop condition, line 973
FarFromTarget(in, s) ==
    s.currentWidth > in.targetWidth * 2 \/ s.currentHeight > in.targetHeight * 2

\* lines 974-975: Math.max(target, Math.round(current / 2))
StepSize(target, current) == Max2(target, MathRound(current, 2))

\* The canvases of the chain are numbered in the order of their creation:
\* s.n is the latest.  _createCanvas (lines 977, 992) adds one to those live.
CreateNext(s) == s.live \cup {s.n + 1}

\* A slip: the previous canvas is never released.
ReleaseSource_Keep(s, live) == live

\* lines 981-984 and 996-999: the previous canvas is released by zeroing its
\* size, unless the source is still the image (every canvas of the chain is
\* at least 1 wide, so `source.width` is truthy)
ReleaseSource(s, live) ==
    IF s.source = "canvas" THEN live \ {s.n} ELSE live

\* One iteration of the loop, lines 973-988: a canvas of the step's size is
\* created and becomes the source.  atCreate is what was live between the
\* creation of the canvas and the release of its predecessor.
Halve ==
    /\ stepRun.pc = "loop"
    /\ FarFromTarget(stepIn, stepRun)
    /\ stepRun.n < MaxHalvings
    /\ stepRun' = [stepRun EXCEPT
                    !.currentWidth  = StepSize(stepIn.targetWidth, stepRun.currentWidth),
                    !.currentHeight = StepSize(stepIn.targetHeight, stepRun.currentHeight),
                    !.source = "canvas",
                    !.n = @ + 1,
                    !.atCreate = CreateNext(stepRun),
                    !.live = ReleaseSource(stepRun, CreateNext(stepRun))]
    /\ UNCHANGED <<stepIn, notStep>>

\* The loop has ended and the current size is not the target: lines 991-1002.
FinalPass ==
    /\ stepRun.pc = "loop"
    /\ ~FarFromTarget(stepIn, stepRun)
    /\ stepRun.currentWidth # stepIn.targetWidth
       \/ stepRun.currentHeight # stepIn.targetHeight
    /\ stepRun' = [stepRun EXCEPT !.pc = "returned", !.result = "canvas",
                              !.width = stepIn.targetWidth,
                              !.height = stepIn.targetHeight,
                              !.n = @ + 1,
                              !.atCreate = CreateNext(stepRun),
                              !.live = ReleaseSource(stepRun, CreateNext(stepRun))]
    /\ UNCHANGED <<stepIn, notStep>>

\* The loop has ended at the target's size: `return source`, line 1005.
ReturnSource ==
    /\ stepRun.pc = "loop"
    /\ ~FarFromTarget(stepIn, stepRun)
    /\ stepRun.currentWidth = stepIn.targetWidth
    /\ stepRun.currentHeight = stepIn.targetHeight
    /\ stepRun' = [stepRun EXCEPT !.pc = "returned", !.result = stepRun.source,
                              !.width = stepRun.currentWidth,
                              !.height = stepRun.currentHeight]
    /\ UNCHANGED <<stepIn, notStep>>

----------------------------------------------------------------------------
(* The complexity estimate of the worker's optimizeBlobSize *)

\* calculateImageComplexity: Math.min(width, 128)
SAMPLE_MAX == 128

\* optimizeBlobSize reads at most 256 x 256 pixels of the canvas
REGION_MAX == 256

\* The canvases handed to optimizeBlobSize: calculateDimensions can plan a
\* 0-pixel axis, so 0 is among the sides
CanvasWidths == 0 .. MaxSurface

CanvasHeights == {0, 1, MaxSurface \div 2, MaxSurface}

NoEstimate ==
    [pc |-> "idle", perRow |-> 0, rows |-> 0, count |-> 0, complexity |-> 0,
     quality |-> 0, width |-> 0, height |-> 0]

\* ctx.getImageData(0, 0, Math.min(canvas.width, 256), Math.min(canvas.height, 256));
\* the platform throws IndexSizeError for a region without pixels
Thrown == [width |-> -1, height |-> -1]

getImageData(canvas) ==
    IF canvas.w = 0 \/ canvas.h = 0 THEN Thrown
    ELSE [width |-> Min2(canvas.w, REGION_MAX), height |-> Min2(canvas.h, REGION_MAX)]

\* the values the loop variable takes: for (v = 0; v < size; v += step)
LoopValues(size, step) == {v \in 0 .. (size - 1) : v % step = 0}

\* stepX and stepY: Math.max(1, Math.floor(size / Math.min(size, 128)))
Stride(size) ==
    LET sample == Min2(size, SAMPLE_MAX)
    IN  Max2(1, size \div sample)

\* calculateImageComplexity: the samples its loops read.  Every index read
\* lies inside data (idx + 2 < data.length), so every loop position counts.
calculateImageComplexity(imageData) ==
    LET xs == LoopValues(imageData.width, Stride(imageData.width))
        ys == LoopValues(imageData.height, Stride(imageData.height))
    IN  [perRow |-> Cardinality(xs), rows |-> Cardinality(ys),
         count |-> Cardinality(xs) * Cardinality(ys)]

\* optimizeBlobSize up to its first encode: the region is read, the score
\* is computed (any score of Complexities: it depends on the pixels) and the
\* quality is adjusted; an exception of getImageData rejects the call
Estimate(score) ==
    /\ cxRun.pc = "entered"
    /\ LET imageData == getImageData(cxCanvas)
           sampled   == calculateImageComplexity(imageData)
       IN  IF imageData = Thrown
           THEN cxRun' = [cxRun EXCEPT !.pc = "rejected"]
           ELSE cxRun' = [cxRun EXCEPT
                            !.pc = "estimated",
                            !.perRow = sampled.perRow, !.rows = sampled.rows,
                            !.count = sampled.count,
                            !.complexity = score,
                            !.quality = AdjustedQuality(score),
                            !.width = cxCanvas.w, !.height = cxCanvas.h]
    /\ UNCHANGED cxCanvas
    /\ UNCHANGED notComplexity

----------------------------------------------------------------------------
(* The requestIdleCallback polyfill: src/src/request-idle-callback-polyfill.js *)

\* cancelIdleCallback: "Frame IDs are typically small"
FRAME_ID_LIMIT == 1000000

Regs == 1 .. MaxRegs

\* options.timeout of a call: none, or a positive number of milliseconds
IdleTimeouts == {0, 50}

\* null for timeoutId and frameId: the window's handles are positive
Null == 0

NoHost ==
    [useMessageChannel |-> FALSE, nextTimer |-> 1, nextFrame |-> 1,
     timers |-> {}, frames |-> {}]

\* One call of requestIdleCallback: its closure (timeoutId, frameId), the id
\* it returned, and what happened: how often cb was invoked and by which
\* path, whether the timeout timer fired, how many frames of the call ran,
\* whether cancelIdleCallback(id) was called before cb had run, and how
\* often cb was invoked after that.
NoCallback ==
    [state |-> "none", timeoutId |-> Null, frameId |-> Null, id |-> Null,
     invoked |-> 0, paths |-> {}, timedOut |-> FALSE, framesRun |-> 0,
     cancelled |-> FALSE, afterCancel |-> 0]

NoCallbacks == [k \in Regs |-> NoCallback]

\* setTimeout and requestAnimationFrame: the handle issued, the entry pending
Timer(id, k, role) == [id |-> id, k |-> k, role |-> role]

Frame(id, k, stage) == [id |-> id, k |-> k, stage |-> stage]

\* clearTimeout(id) and cancelAnimationFrame(id): by handle, whoever set it
clearTimeout(timers, id) == {t \in timers : t.id # id}

cancelAnimationFrame(frames, id) == {f \in frames : f.id # id}

\* cb(...) is called
Invoke(c, path) ==
    [c EXCEPT !.invoked = @ + 1, !.paths = @ \cup {path},
              !.afterCancel = IF c.cancelled THEN @ + 1 ELSE @]

\* window.requestIdleCallback(cb, options)
RequestIdleCallback(k, timeout) ==
    /\ callbacks[k].state = "none"
    /\ \A j \in Regs : j < k => callbacks[j].state # "none"
    /\ LET timed     == timeout > 0
           timeoutId == IF timed THEN host.nextTimer ELSE Null
           frameId   == host.nextFrame
           id        == IF frameId # Null THEN frameId
                        ELSE IF timeoutId # Null THEN timeoutId
                        ELSE FRAME_ID_LIMIT
       IN  /\ host' = [host EXCEPT
                         !.nextTimer = IF timed THEN @ + 1 ELSE @,
                         !.nextFrame = @ + 1,
                         !.timers = IF timed THEN @ \cup {Timer(timeoutId, k, "timeout")}
                                    ELSE @,
                         !.frames = @ \cup {Frame(frameId, k, 1)}]
           /\ callbacks' = [callbacks EXCEPT
                              ![k] = [NoCallback EXCEPT
                                        !.state = "registered",
                                        !.timeoutId = timeoutId,
                                        !.frameId = frameId, !.id = id]]
    /\ UNCHANGED notIdle

\* A slip: the timeout handler leaves the pending frame alone.
CancelPendingFrame_Keep(frames, c) == frames

\* the timeout handler: if (frameId !== null) cancelAnimationFrame(frameId)
CancelPendingFrame(frames, c) ==
    IF c.frameId # Null THEN cancelAnimationFrame(frames, c.frameId) ELSE frames

\* a pending timer fires: the timeout handler, or the 1 ms timer of the path
\* without MessageChannel
TimerFires(t) ==
    /\ t \in host.timers
    /\ LET c == callbacks[t.k]
       IN  IF t.role = "timeout"
           THEN /\ host' = [host EXCEPT
                              !.timers = @ \ {t},
                              !.frames = CancelPendingFrame(@, c)]
                /\ callbacks' = [callbacks EXCEPT
                                   ![t.k] = Invoke([c EXCEPT !.frameId = Null,
                                                             !.timedOut = TRUE],
                                                   "timeout")]
           ELSE /\ host' = [host EXCEPT !.timers = @ \ {t}]
                /\ callbacks' = [callbacks EXCEPT ![t.k] = Invoke(c, "frame")]
    /\ UNCHANGED notIdle

\* a pending animation frame callback runs
FrameFires(f) ==
    /\ f \in host.frames
    /\ LET c       == [callbacks[f.k] EXCEPT !.framesRun = @ + 1]
           cleared == IF c.timeoutId # Null THEN clearTimeout(host.timers, c.timeoutId)
                      ELSE host.timers
       IN  IF f.stage = 1 /\ host.useMessageChannel
           THEN /\ host' = [host EXCEPT
                              !.frames = (@ \ {f}) \cup {Frame(host.nextFrame, f.k, 2)},
                              !.nextFrame = @ + 1]
                /\ callbacks' = [callbacks EXCEPT
                                   ![f.k] = [c EXCEPT !.frameId = host.nextFrame]]
           ELSE IF f.stage = 1
           THEN /\ host' = [host EXCEPT
                              !.frames = @ \ {f},
                              !.timers = cleared \cup {Timer(host.nextTimer, f.k, "delay")},
                              !.nextTimer = @ + 1]
                /\ callbacks' = [callbacks EXCEPT ![f.k] = c]
           ELSE /\ host' = [host EXCEPT !.frames = @ \ {f}, !.timers = cleared]
                /\ callbacks' = [callbacks EXCEPT ![f.k] = Invoke(c, "frame")]
    /\ UNCHANGED notIdle

\* window.cancelIdleCallback(id) with the id requestIdleCallback returned
CancelIdleCallback(k) ==
    /\ callbacks[k].state = "registered"
    /\ ~callbacks[k].cancelled
    /\ LET id == callbacks[k].id
       IN  host' = [host EXCEPT
                      !.frames = IF id < FRAME_ID_LIMIT
                                 THEN cancelAnimationFrame(@, id) ELSE @,
                      !.timers = clearTimeout(@, id)]
    /\ callbacks' = [callbacks EXCEPT
                       ![k].cancelled = callbacks[k].invoked = 0]
    /\ UNCHANGED notIdle

----------------------------------------------------------------------------
(* The specifications *)

\* cleanup(): lines 1252-1255
Cleanup ==
    /\ UNCHANGED notOrch
    /\ activeObjectUrls' = {}
    /\ isProcessing' = FALSE
    /\ UNCHANGED <<inv, ncalls>>

OrchInit ==
    /\ isProcessing = FALSE
    /\ host = NoHost
    /\ callbacks = NoCallbacks
    /\ cxCanvas = NoCanvas
    /\ cxRun = NoEstimate
    /\ activeObjectUrls = {}
    /\ inv = [i \in Calls |-> IdleInv]
    /\ ncalls = 0
    /\ dimIn = NoDimIn
    /\ dimOut = NoDimOut
    /\ encoder = NoEncoder
    /\ opt = NoOpt
    /\ CONFIG = InitialConfig
    /\ WASM = InitialWasm
    /\ loading = {}
    /\ req = [id \in ReqIds |-> IdleReq]
    /\ posted = [id \in InitIds \cup ReqIds |-> <<>>]
    /\ chunkIn = NoChunkIn
    /\ stepIn = NoStepIn
    /\ stepRun = NoSteps
    /\ surface = <<>>
    /\ drawn = {}

OrchNext ==
    \/ \E i \in Calls, f \in Files, fault \in {"none", "p5"} :
          CallProcessImage(i, f, fault)
    \/ \E i \in Calls, f \in Files : CallGeneratePreview(i, f)
    \/ \E i \in Calls, ok \in BOOLEAN : PreviewLoaded(i, ok)
    \/ \E i \in Calls, ok \in BOOLEAN, fault \in {"none", "onPreview", "p15"} :
          PreviewEncoded(i, ok, fault)
    \/ \E i \in Calls, ok \in BOOLEAN,
          fault \in {"none", "p30", "p35", "resize", "pchunk", "p70", "p75"} :
          FullLoaded(i, ok, fault)
    \/ \E i \in Calls, fault \in {"none", "pchunk", "p75"} : ChunksResumed(i, fault)
    \/ \E i \in Calls, o \in EncodeOutcomes, fault \in {"none", "p90"} :
          Encoded(i, o, fault)
    \/ \E i \in Calls, fault \in {"none", "p100"}, toUrl \in BOOLEAN :
          GcDone(i, fault, toUrl)
    \/ Cleanup

SpecOrch == OrchInit /\ [][OrchNext]_vars

\* The Dimension Planner on every argument tuple within the bounds
DimInit ==
    /\ dimIn \in DimInputs
    /\ dimOut = NoDimOut
    /\ isProcessing = FALSE
    /\ host = NoHost
    /\ callbacks = NoCallbacks
    /\ cxCanvas = NoCanvas
    /\ cxRun = NoEstimate
    /\ activeObjectUrls = {}
    /\ inv = [i \in Calls |-> IdleInv]
    /\ ncalls = 0
    /\ encoder = NoEncoder
    /\ opt = NoOpt
    /\ CONFIG = InitialConfig
    /\ WASM = InitialWasm
    /\ loading = {}
    /\ req = [id \in ReqIds |-> IdleReq]
    /\ posted = [id \in InitIds \cup ReqIds |-> <<>>]
    /\ chunkIn = NoChunkIn
    /\ stepIn = NoStepIn
    /\ stepRun = NoSteps
    /\ surface = <<>>
    /\ drawn = {}

DimNext ==
    \/ PlanWorker
    \/ PlanIP

SpecDims == DimInit /\ [][DimNext]_vars

\* The Quality Optimizer of the worker and of ImageProcessor, against every
\* monotone encoder of the grid and against an arbitrary encoder
OptInit ==
    /\ encoder \in MonoEncoders \cup {ArbitraryEncoder}
    /\ opt \in {OptStart("worker", c) : c \in Complexities} \cup {OptStart("ip", 5)}
    /\ isProcessing = FALSE
    /\ host = NoHost
    /\ callbacks = NoCallbacks
    /\ cxCanvas = NoCanvas
    /\ cxRun = NoEstimate
    /\ activeObjectUrls = {}
    /\ inv = [i \in Calls |-> IdleInv]
    /\ ncalls = 0
    /\ dimIn = NoDimIn
    /\ dimOut = NoDimOut
    /\ CONFIG = InitialConfig
    /\ WASM = InitialWasm
    /\ loading = {}
    /\ req = [id \in ReqIds |-> IdleReq]
    /\ posted = [id \in InitIds \cup ReqIds |-> <<>>]
    /\ chunkIn = NoChunkIn
    /\ stepIn = NoStepIn
    /\ stepRun = NoSteps
    /\ surface = <<>>
    /\ drawn = {}

OptNext ==
    \/ \E size \in {SizeOf(p) : p \in SizeLevels} : WFirstEncoded(size)
    \/ \E size \in {SizeOf(p) : p \in SizeLevels} : WStepEncoded(size)
    \/ \E size \in {SizeOf(p) : p \in SizeLevels} : WBinaryEncoded(size)
    \/ \E size \in {SizeOf(p) : p \in SizeLevels} : IPFirstEncoded(size)
    \/ \E size \in {SizeOf(p) : p \in SizeLevels} : IPBinaryEncoded(size)
    \/ OptEncodeFails

SpecOpt == OptInit /\ [][OptNext]_vars

WorkerInit ==
    /\ CONFIG = InitialConfig
    /\ WASM = InitialWasm
    /\ loading = {}
    /\ req = [id \in ReqIds |-> IdleReq]
    /\ posted = [id \in InitIds \cup ReqIds |-> <<>>]
    /\ isProcessing = FALSE
    /\ host = NoHost
    /\ callbacks = NoCallbacks
    /\ cxCanvas = NoCanvas
    /\ cxRun = NoEstimate
    /\ activeObjectUrls = {}
    /\ inv = [i \in Calls |-> IdleInv]
    /\ ncalls = 0
    /\ dimIn = NoDimIn
    /\ dimOut = NoDimOut
    /\ encoder = NoEncoder
    /\ opt = NoOpt
    /\ chunkIn = NoChunkIn
    /\ stepIn = NoStepIn
    /\ stepRun = NoSteps
    /\ surface = <<>>
    /\ drawn = {}

WorkerNext ==
    \/ \E id \in InitIds, config \in Configs : InitMessage(id, config)
    \/ \E id \in InitIds, m \in LoadOutcomes : LoadFinished(id, m)
    \/ \E id \in ReqIds, data \in ProcessData, b \in BehavioursFor(WASM) :
          ProcessMessage(id, data, b)
    \/ \E id \in ReqIds, expired \in BOOLEAN, b \in BehavioursFor(WASM) :
          PollTimer(id, expired, b)
    \/ \E id \in ReqIds, ok \in BOOLEAN : BitmapCreated(id, ok)
    \/ \E id \in ReqIds, ok \in BOOLEAN : BlobReady(id, ok)
    \/ \E id \in ReqIds, img \in WorkerImages : PreviewMessage(id, img)
    \/ \E id \in ReqIds : UnknownMessage(id)

SpecWorker == WorkerInit /\ [][WorkerNext]_vars

\* The platform's part: a pending 50 ms timer fires, and the promises of
\* createImageBitmap and convertToBlob settle.
WorkerFairness ==
    \A id \in ReqIds :
        /\ WF_vars(\E expired \in BOOLEAN, b \in BehavioursFor(WASM) :
                      PollTimer(id, expired, b))
        /\ WF_vars(\E ok \in BOOLEAN : BitmapCreated(id, ok))
        /\ WF_vars(\E ok \in BOOLEAN : BlobReady(id, ok))

FairWorker == WorkerInit /\ [][WorkerNext]_vars /\ WorkerFairness

FlightInit ==
    /\ CONFIG = InitialConfig
    /\ WASM = InitialWasm
    /\ loading = {}
    /\ req = [id \in FlightIds |-> IdleReq]
    /\ posted = [id \in InitIds \cup FlightIds |-> <<>>]
    /\ isProcessing = FALSE
    /\ host = NoHost
    /\ callbacks = NoCallbacks
    /\ cxCanvas = NoCanvas
    /\ cxRun = NoEstimate
    /\ activeObjectUrls = {}
    /\ inv = [i \in Calls |-> IdleInv]
    /\ ncalls = 0
    /\ dimIn = NoDimIn
    /\ dimOut = NoDimOut
    /\ encoder = NoEncoder
    /\ opt = NoOpt
    /\ chunkIn = NoChunkIn
    /\ stepIn = NoStepIn
    /\ stepRun = NoSteps
    /\ surface = <<>>
    /\ drawn = {}

FlightNext ==
    \/ \E id \in InitIds, config \in FlightConfigs : InitMessage(id, config)
    \/ \E id \in InitIds, m \in FlightOutcomes : LoadFinished(id, m)
    \/ \E id \in FlightIds, data \in FlightData, b \in FlightBehaviours :
          ProcessMessage(id, data, b)
    \/ \E id \in FlightIds, expired \in BOOLEAN, b \in FlightBehaviours :
          PollTimer(id, expired, b)
    \/ \E id \in FlightIds, ok \in BOOLEAN : BitmapCreated(id, ok)
    \/ \E id \in FlightIds, ok \in BOOLEAN : BlobReady(id, ok)
    \/ \E id \in FlightIds, img \in FlightImages : PreviewMessage(id, img)
    \/ \E id \in FlightIds : UnknownMessage(id)

\* as WorkerFairness, for every request in flight
FlightFairness ==
    \A id \in FlightIds :
        /\ WF_vars(\E expired \in BOOLEAN, b \in FlightBehaviours :
                      PollTimer(id, expired, b))
        /\ WF_vars(\E ok \in BOOLEAN : BitmapCreated(id, ok))
        /\ WF_vars(\E ok \in BOOLEAN : BlobReady(id, ok))

FairFlight == FlightInit /\ [][FlightNext]_vars /\ FlightFairness

ChunkInit ==
    /\ chunkIn \in ChunkInputs
    /\ stepIn = NoStepIn
    /\ stepRun = NoSteps
    /\ surface = BlankSurface(chunkIn)
    /\ drawn = {}
    /\ isProcessing = FALSE
    /\ host = NoHost
    /\ callbacks = NoCallbacks
    /\ cxCanvas = NoCanvas
    /\ cxRun = NoEstimate
    /\ activeObjectUrls = {}
    /\ inv = [i \in Calls |-> IdleInv]
    /\ ncalls = 0
    /\ dimIn = NoDimIn
    /\ dimOut = NoDimOut
    /\ encoder = NoEncoder
    /\ opt = NoOpt
    /\ CONFIG = InitialConfig
    /\ WASM = InitialWasm
    /\ loading = {}
    /\ req = [id \in ReqIds |-> IdleReq]
    /\ posted = [id \in InitIds \cup ReqIds |-> <<>>]

ChunkNext == \E c \in Chunks(chunkIn) : Composite(c)

SpecChunks == ChunkInit /\ [][ChunkNext]_vars

StepInit ==
    /\ stepIn \in StepInputs
    /\ stepRun = EnterSteps(stepIn)
    /\ chunkIn = NoChunkIn
    /\ surface = <<>>
    /\ drawn = {}
    /\ isProcessing = FALSE
    /\ host = NoHost
    /\ callbacks = NoCallbacks
    /\ cxCanvas = NoCanvas
    /\ cxRun = NoEstimate
    /\ activeObjectUrls = {}
    /\ inv = [i \in Calls |-> IdleInv]
    /\ ncalls = 0
    /\ dimIn = NoDimIn
    /\ dimOut = NoDimOut
    /\ encoder = NoEncoder
    /\ opt = NoOpt
    /\ CONFIG = InitialConfig
    /\ WASM = InitialWasm
    /\ loading = {}
    /\ req = [id \in ReqIds |-> IdleReq]
    /\ posted = [id \in InitIds \cup ReqIds |-> <<>>]

StepNext == Halve \/ FinalPass \/ ReturnSource

SpecSteps == StepInit /\ [][StepNext]_vars

ComplexityInit ==
    /\ cxCanvas \in {Canvas("software", w, h) : w \in CanvasWidths, h \in CanvasHeights}
    /\ cxRun = [NoEstimate EXCEPT !.pc = "entered"]
    /\ chunkIn = NoChunkIn
    /\ surface = <<>>
    /\ drawn = {}
    /\ stepIn = NoStepIn
    /\ stepRun = NoSteps
    /\ isProcessing = FALSE
    /\ host = NoHost
    /\ callbacks = NoCallbacks
    /\ activeObjectUrls = {}
    /\ inv = [i \in Calls |-> IdleInv]
    /\ ncalls = 0
    /\ dimIn = NoDimIn
    /\ dimOut = NoDimOut
    /\ encoder = NoEncoder
    /\ opt = NoOpt
    /\ CONFIG = InitialConfig
    /\ WASM = InitialWasm
    /\ loading = {}
    /\ req = [id \in ReqIds |-> IdleReq]
    /\ posted = [id \in InitIds \cup ReqIds |-> <<>>]

ComplexityNext == \E score \in Complexities : Estimate(score)

SpecComplexity == ComplexityInit /\ [][ComplexityNext]_vars

IdleInit ==
    /\ host \in [useMessageChannel : BOOLEAN, nextTimer : 1 .. MaxHandle,
                  nextFrame : 1 .. MaxHandle, timers : {{}}, frames : {{}}]
    /\ callbacks = NoCallbacks
    /\ cxCanvas = NoCanvas
    /\ cxRun = NoEstimate
    /\ chunkIn = NoChunkIn
    /\ surface = <<>>
    /\ drawn = {}
    /\ stepIn = NoStepIn
    /\ stepRun = NoSteps
    /\ isProcessing = FALSE
    /\ activeObjectUrls = {}
    /\ inv = [i \in Calls |-> IdleInv]
    /\ ncalls = 0
    /\ dimIn = NoDimIn
    /\ dimOut = NoDimOut
    /\ encoder = NoEncoder
    /\ opt = NoOpt
    /\ CONFIG = InitialConfig
    /\ WASM = InitialWasm
    /\ loading = {}
    /\ req = [id \in ReqIds |-> IdleReq]
    /\ posted = [id \in InitIds \cup ReqIds |-> <<>>]

IdleNext ==
    \/ \E k \in Regs, timeout \in IdleTimeouts : RequestIdleCallback(k, timeout)
    \/ \E t \in host.timers : TimerFires(t)
    \/ \E f \in host.frames : FrameFires(f)
    \/ \E k \in Regs : CancelIdleCallback(k)

SpecIdle == IdleInit /\ [][IdleNext]_vars

----------------------------------------------------------------------------
(* Claims about the orchestrator *)

\* A processImage invocation that has passed the busy guard and has not settled
Active(i) ==
    /\ PIKind(inv[i].kind)
    /\ inv[i].pc \in {"previewLoad", "previewEncode", "fullLoad", "chunks",
                      "encode", "gc", "hung"}

Settled(i) == inv[i].pc \in {"resolved", "rejected"}

OwnUrls(i) == {Url(i, "previewSrc"), Url(i, "preview"), Url(i, "src")}

\* C1: at most one processImage invocation is active at any time, under every
\* interleaving of processImage, processImageToUrl, generatePreview and cleanup.
C1_AtMostOneActive == Cardinality({i \in Calls : Active(i)}) <= 1

\* C2: a processImage call made while another invocation is active rejects
\* with the busy error, invokes no callback, creates no URL and no canvas,
\* starts no decode and leaves isProcessing true.
C2_BusyCallRejected ==
    [][\A i \in Calls :
          (/\ inv[i].pc = "idle"
           /\ inv'[i].pc # "idle"
           /\ PIKind(inv'[i].kind)
           /\ \E j \in Calls : Active(j))
          => (/\ inv'[i].pc = "rejected"
              /\ inv'[i].err = "busy"
              /\ inv'[i].prog = 0
              /\ inv'[i].previews = 0
              /\ inv'[i].allocs = 0
              /\ inv'[i].decodes = 0
              /\ activeObjectUrls' = activeObjectUrls
              /\ isProcessing')]_vars

\* The guard itself (lines 1115-1117): a call made while isProcessing is set
\* is rejected as C2 describes.
GuardedCallRejected ==
    [][\A i \in Calls :
          (/\ inv[i].pc = "idle"
           /\ inv'[i].pc # "idle"
           /\ PIKind(inv'[i].kind)
           /\ isProcessing)
          => (/\ inv'[i].pc = "rejected"
              /\ inv'[i].err = "busy"
              /\ inv'[i].allocs = 0
              /\ inv'[i].decodes = 0
              /\ activeObjectUrls' = activeObjectUrls
              /\ isProcessing')]_vars

\* C3: when a processImage invocation has settled (resolved or rejected at any
\* stage), every object URL and every canvas it created has been released.
C3_AllReleasedWhenSettled ==
    \A i \in Calls :
        (PIKind(inv[i].kind) /\ Settled(i))
        => (inv[i].live = {} /\ OwnUrls(i) \cap activeObjectUrls = {})

----------------------------------------------------------------------------
(* Claims about the Dimension Planner *)

Planned == dimOut.who # "none"

\* the source fits the box min(maximum, display hint), an absent hint not counting
FitsEffectiveBox ==
    /\ dimIn.w <= dimIn.maxW
    /\ dimIn.h <= dimIn.maxH
    /\ dimIn.sw.n = 0 \/ dimIn.w * dimIn.sw.d <= dimIn.sw.n
    /\ dimIn.sh.n = 0 \/ dimIn.h * dimIn.sh.d <= dimIn.sh.n

\* C5: the planned dimensions never exceed the configured maxima and never
\* exceed the source dimensions, for every display hint.
C5_WithinMaximaAndSource ==
    Planned => /\ dimOut.width <= dimIn.maxW
               /\ dimOut.height <= dimIn.maxH
               /\ dimOut.width <= dimIn.w
               /\ dimOut.height <= dimIn.h

\* a source scaled down on both axes under a fractional display hint
C5_Witness ==
    /\ Planned
    /\ dimOut.width < dimIn.w /\ dimOut.height < dimIn.h
    /\ dimOut.height >= 1
    /\ dimIn.sw.d = 2 /\ dimIn.sw.n % 2 = 1 /\ dimIn.sw.n < 2 * dimIn.maxW

C7_AtLeastOnePixel ==
    (Planned /\ ~FitsEffectiveBox) => (dimOut.width >= 1 /\ dimOut.height >= 1)

----------------------------------------------------------------------------
(* Claims about the Quality Optimizer *)

\* C8: worker optimizeBlobSize, monotone encoder: when the first encode
\* exceeds the budget but some quality of the search range, down to the 0.5
\* floor, encodes to at most the budget, the returned blob is at most
\* budget * 1.05.
C8_ReturnsWithinTolerance ==
    (/\ opt.who = "worker" /\ opt.pc = "done"
     /\ encoder.mono
     /\ opt.firstSize > TARGET_OUTPUT_SIZE
     /\ \E q \in GridQualities :
           /\ Q(500) <= q /\ q <= opt.adjusted
           /\ MonoSize(encoder, q) <= TARGET_OUTPUT_SIZE)
    => opt.retSize * 100 <= TARGET_OUTPUT_SIZE * 105

\* C19: the multistep strategy terminates for every source and every target
\* the planner can produce, a target with an axis of 0 or 1 included: each
\* iteration of the halving loop shrinks the current surface on at least one
\* axis.  (The loop's condition reads only the current and the target size,
\* so an iteration that leaves the current size as it was repeats for ever.)
C19_EveryHalvingShrinks ==
    [][(stepRun.pc = "loop" /\ stepRun'.n = stepRun.n + 1)
       => \/ stepRun'.currentWidth < stepRun.currentWidth
          \/ stepRun'.currentHeight < stepRun.currentHeight]_vars

\* C21: at most two canvases of the multistep chain are live at any point,
\* the predecessor of the latest canvas at most (anything older has been
\* released before the next one is created), and only the latest once a step
\* is over; every intermediate canvas is no larger than its predecessor and
\* no smaller than the target, on both axes.
C21_TwoSurfacesAtMost ==
    /\ [](/\ Cardinality(stepRun.atCreate) <= 2
          /\ stepRun.atCreate \subseteq {stepRun.n - 1, stepRun.n}
          /\ stepRun.live \subseteq {stepRun.n})
    /\ [][(stepRun.pc = "loop" /\ stepRun'.pc = "loop")
          => (/\ stepRun'.currentWidth <= stepRun.currentWidth
              /\ stepRun'.currentHeight <= stepRun.currentHeight
              /\ stepRun'.currentWidth >= stepIn.targetWidth
              /\ stepRun'.currentHeight >= stepIn.targetHeight)]_vars

\* the third canvas of a chain has been created while the second was live
\* and the first released
C21_Witness ==
    /\ stepRun.n = 3
    /\ stepRun.atCreate = {2, 3}
    /\ stepRun.live = {3}

\* C20: whatever the input, the multistep strategy returns a newly created
\* canvas of exactly targetWidth x targetHeight, never the source image.
C20_ReturnsNewExactCanvas ==
    stepRun.pc = "returned"
    => (/\ stepRun.result = "canvas"
        /\ stepRun.width = stepIn.targetWidth
        /\ stepRun.height = stepIn.targetHeight)

\* _optimizeBlobSize has returned after 5 binary-search encodes, the last of
\* which was not within tolerance (above the budget or below 0.8 of it).
IPExhausted ==
    /\ opt.who = "ip" /\ opt.pc = "done" /\ opt.i = 5
    /\ \/ opt.retSize > TARGET_OUTPUT_SIZE
       \/ opt.retSize * 10 < TARGET_OUTPUT_SIZE * 8

\* C25: when _optimizeBlobSize exhausts its 5 iterations, it returns the
\* highest-quality attempt whose blob was within the budget, among all the
\* attempts it made; if no attempt was within the budget, the lowest-quality
\* attempt.
C25_ReturnsBestFitting ==
    IPExhausted
    => IF opt.fitQuality > 0
       THEN opt.retQuality = opt.fitQuality /\ opt.retSize <= TARGET_OUTPUT_SIZE
       ELSE opt.retQuality = opt.lowQuality

\* A step in which the request `id` calls processImageDataWithWasm.
BridgeCalled(id) ==
    /\ req[id].bridge = "none"
    /\ req'[id].bridge \notin {"none", "notReady"}

\* the kernel the caller's algorithm names (baseline for auto and bilinear)
NamedKernel(options) ==
    IF options.algorithm = "nearest" THEN "resize_rgba_nearest"
    ELSE IF options.algorithm = "lanczos" THEN "resize_rgba_lanczos"
    ELSE "resize_rgba"

Gamma == "resize_rgba_gamma_bilinear"

\* C27 as claimed: the kernel invoked is exported; it is the kernel named by
\* `algorithm` (nearest or lanczos) whenever that kernel is exported, for
\* either value of gammaCorrect; the gamma-correct bilinear kernel when
\* gammaCorrect is set with algorithm auto or bilinear and that kernel is
\* exported; the baseline whenever the requested kernel is absent.
C27_KernelAsStated ==
    [][\A id \in ReqIds :
          BridgeCalled(id) =>
            LET o == req'[id].options
                k == req'[id].kernel
                requested == IF NamedKernel(o) # "resize_rgba" THEN NamedKernel(o)
                             ELSE IF o.gammaCorrect THEN Gamma ELSE "resize_rgba"
            IN  /\ k \in WASM.exports
                /\ (NamedKernel(o) # "resize_rgba" /\ NamedKernel(o) \in WASM.exports)
                      => k = NamedKernel(o)
                /\ (o.gammaCorrect /\ NamedKernel(o) = "resize_rgba"
                      /\ Gamma \in WASM.exports) => k = Gamma
                /\ requested \notin WASM.exports => k = "resize_rgba"]_vars

\* C27 amended: the kernel invoked is exported; it is the gamma-correct
\* bilinear kernel whenever gammaCorrect is set and that kernel is exported,
\* whatever the algorithm; otherwise the kernel named by `algorithm` (nearest
\* or lanczos) when that kernel is exported; otherwise the baseline.
C27_KernelByPriority ==
    [][\A id \in ReqIds :
          BridgeCalled(id) =>
            LET o == req'[id].options
                k == req'[id].kernel
            IN  /\ k \in WASM.exports
                /\ k = IF o.gammaCorrect /\ Gamma \in WASM.exports THEN Gamma
                       ELSE IF NamedKernel(o) \in WASM.exports THEN NamedKernel(o)
                       ELSE "resize_rgba"]_vars

\* lanczos was asked for with gammaCorrect, the module exports both kernels,
\* and the gamma-correct bilinear kernel produced the result
C27_Witness ==
    \E id \in ReqIds :
        /\ req[id].options = [gammaCorrect |-> TRUE, algorithm |-> "lanczos"]
        /\ req[id].kernel = Gamma
        /\ req[id].bridge = "ok"
        /\ "resize_rgba_lanczos" \in WASM.exports

\* C28: for a module exporting alloc_memory and dealloc_memory, every buffer
\* processImageDataWithWasm obtained from alloc_memory has been passed to
\* dealloc_memory exactly once when the function has returned, on every
\* exit path.
C28_EveryBufferFreed ==
    \A id \in ReqIds : req[id].freed = req[id].allocated

\* the bump allocator fits both buffers into the module's memory as it is
FitsHeap(W, r) ==
    ((r.img.w * r.img.h * 4 + 7) \div 8) * 8
      + ((r.targetWidth * r.targetHeight * 4 + 7) \div 8) * 8 <= W.heapCapacity

\* C29: a module exporting only resize_rgba and a memory is usable: the
\* bridge gets its buffers from the bump allocator, so a call that needs no
\* more memory than the module has does not end as an allocation failure
\* (and yields the accelerated surface when the kernel returns 0).
C29_BumpAllocatorUsable ==
    [][\A id \in ReqIds :
          (/\ BridgeCalled(id)
           /\ "alloc_memory" \notin WASM.exports
           /\ FitsHeap(WASM, req'[id]))
          => req'[id].bridge # "allocation"]_vars

\* the request has been given its terminal response
Answered(id) ==
    /\ req[id].pc = "done"
    /\ posted[id] # <<>>
    /\ posted[id][Len(posted[id])].type \in {"complete", "error"}

\* C30: the wait for the module is bounded: a request polls at most
\* WAIT_MS / POLL_MS times; when the wait ends with the module still not
\* ready the request proceeds on the software path; and every 'process'
\* request is eventually given its terminal response, whether or not the
\* module ever loads.
C30_BoundedWait ==
    /\ [](\A id \in ReqIds : req[id].polls <= WaitPolls)
    /\ [][\A id \in ReqIds :
             (req[id].pc = "wasmWait" /\ req'[id].pc # "wasmWait" /\ ~WASM.ready)
             => (req'[id].pc = "bitmap" /\ req'[id].bridge = "notReady")]_vars
    /\ \A id \in ReqIds : (req[id].kind = "process") ~> Answered(id)

\* a request waited until WAIT_MS had elapsed, the module never became
\* ready, and it was answered 'complete' by the software path
C30_Witness ==
    \E id \in ReqIds :
        /\ req[id].expired
        /\ req[id].bridge = "notReady"
        /\ Answered(id)
        /\ posted[id][Len(posted[id])].type = "complete"

\* C26: in the worker's optimizeBlobSize every trial made after a trial that
\* exceeded budget * 1.05 uses a strictly lower quality than that trial, and
\* the bracket satisfies minQuality <= maxQuality.
C26_OverLowersUpperBound ==
    opt.who = "worker"
    => (opt.belowOver /\ opt.minQuality <= opt.maxQuality)

\* the bracket alone
BracketOrdered == opt.minQuality <= opt.maxQuality

\* C24, ImageProcessor's half: _processInChunks processes at most 4 tiles
\* between two yields.
OrchYieldsEveryFour ==
    [][\A i \in Calls : inv'[i].chunks - inv[i].chunks <= 4]_vars

\* C24: in every chunked resize no more than 4 tiles are processed between
\* two consecutive yield points; for the worker: the tiles a request draws
\* in one uninterrupted run of its handler are at most 4.
C24_YieldsEveryFourTiles == \A id \in ReqIds : req[id].tiles <= 4

\* The request took the accelerated path: it waits for the module or it
\* called the bridge.
WasmAttempted(r) == r.pc = "wasmWait" \/ r.bridge \notin {"none", "notReady"}

\* C18: a 'process' request for an ImageData source of more pixels than the
\* auto-enable threshold, received while a WASM URL is configured, attempts
\* the accelerated resize even when WASM_ENABLED is false.
C18_AutoEnableAboveThreshold ==
    [][\A id \in ReqIds :
          (/\ req[id].pc = "idle"
           /\ req'[id].kind = "process"
           /\ req'[id].mode = "imageData"
           /\ req'[id].img.w * req'[id].img.h > WASM_AUTO_ENABLE_THRESHOLD
           /\ CONFIG.WASM_URL)
          => WasmAttempted(req'[id])]_vars

\* The complexity-biased initial quality lies in [0.7, 0.98].
InitialQualityInRange ==
    \A c \in Complexities : Q(700) <= AdjustedQuality(c) /\ AdjustedQuality(c) <= Q(980)

Is6000x4000(r) == PIKind(r.kind) /\ r.file.w = 6000 /\ r.file.h = 4000

\* C17 as claimed: for a 6000x4000 source under the maximum 3840x2160 the
\* planned output is 3840x2560, the strategy is chunked above the huge
\* threshold and multistep at or below it, and the initial quality lies in
\* [0.7, 0.98].
C17_ScenarioAsStated ==
    \A i \in Calls :
        (Is6000x4000(inv[i]) /\ inv[i].strategy # "none")
        => (/\ inv[i].tw = 3840 /\ inv[i].th = 2560
            /\ inv[i].strategy = IF inv[i].file.size > HUGE_IMAGE_THRESHOLD
                                 THEN "chunked" ELSE "multistep"
            /\ InitialQualityInRange)

\* C17 amended: for a 6000x4000 source under the maximum 3840x2160 the planned
\* output is 3240x2160 (the height binds); the strategy is chunked above the
\* huge threshold, multistep above the large threshold and up to the huge
\* one, direct at or below the large threshold (the source is less than 3 x
\* the target on both axes); the initial quality lies in [0.7, 0.98].
C17_ScenarioAsPlanned ==
    \A i \in Calls :
        (Is6000x4000(inv[i]) /\ inv[i].strategy # "none")
        => (/\ inv[i].tw = 3240 /\ inv[i].th = 2160
            /\ inv[i].strategy = IF inv[i].file.size > HUGE_IMAGE_THRESHOLD
                                 THEN "chunked"
                                 ELSE IF inv[i].file.size > LARGE_IMAGE_THRESHOLD
                                 THEN "multistep"
                                 ELSE "direct"
            /\ InitialQualityInRange)

C17_Witness ==
    \E i \in Calls :
        /\ Is6000x4000(inv[i])
        /\ inv[i].file.size <= LARGE_IMAGE_THRESHOLD
        /\ inv[i].strategy = "direct"
        /\ inv[i].tw = 3240
        /\ inv[i].pc = "encode"

\* What C16 says of the order: onPreview is invoked at most once, with 5 the
\* last progress value reported before it, and it has been invoked whenever a
\* later checkpoint has been reported.
PreviewOrder(i) ==
    /\ inv[i].previews <= 1
    /\ inv[i].previews = 1 => inv[i].previewAt = 5
    /\ inv[i].prog >= 15 => inv[i].previews = 1

\* C16 as claimed: a processImage invocation that passed byte-size validation
\* and whose preview decode succeeded (it allocated the preview canvas) has
\* invoked onPreview exactly once when it settles, after checkpoint 5 and
\* before any later checkpoint.
C16_PreviewOnceAfterDecode ==
    \A i \in Calls :
        PIKind(inv[i].kind)
        => (/\ PreviewOrder(i)
            /\ (Settled(i) /\ inv[i].allocs >= 1) => inv[i].previews = 1)

\* C16 amended: onPreview is invoked at most once, after checkpoint 5 and
\* before any later checkpoint, never after the resize or encode checkpoints;
\* and the step that ends the preview's encode has invoked it exactly once
\* unless that encode failed (the invocation then rejects with the encode
\* error and onPreview is never invoked).
C16_PreviewOnceAfterEncode ==
    /\ [](\A i \in Calls : PIKind(inv[i].kind) => PreviewOrder(i))
    /\ [][\A i \in Calls :
             (/\ PIKind(inv[i].kind)
              /\ inv[i].pc = "previewEncode"
              /\ inv'[i].pc # "previewEncode")
             => IF inv'[i].err = "encode"
                THEN inv'[i].previews = 0 /\ inv'[i].pc = "rejected"
                ELSE inv'[i].previews = 1 /\ inv'[i].previewAt = 5]_vars

C16_Witness ==
    \E i \in Calls :
        /\ inv[i].pc = "resolved"
        /\ PIKind(inv[i].kind)
        /\ inv[i].previews = 1
        /\ inv[i].previewAt = 5
        /\ inv[i].prog = 100

\* C15: an encode call that fails is retried once, and the optimizer surfaces
\* the error only when the retry has failed too: it throws after two failed
\* encode calls, never after one.
C15_RetriedOnceBeforeSurfacing == opt.pc = "threw" => opt.failed = 2

\* C9: one invocation of the Quality Optimizer (the worker's or
\* ImageProcessor's) performs at most 8 encode calls, whatever sizes the
\* encoder returns.
C9_AtMostEightEncodes == opt.encodes <= 8

\* the worker's optimizer returns after the initial encode, one progressive
\* step and the five encodes of the binary search
C9_Witness ==
    /\ opt.who = "worker" /\ opt.pc = "done"
    /\ opt.i = 5
    /\ opt.encodes = 7

----------------------------------------------------------------------------
(* Claims about the worker and the WASM bridge *)

\* the bridge was enabled for this 'process' request and did not deliver
BridgeFailed(r) ==
    /\ r.kind = "process" /\ r.mode = "imageData" /\ r.enabled
    /\ r.bridge \in {"notReady", "noExports", "noKernel", "allocation",
                     "errorCode", "exception"}

\* the dimensions of the software-only path
SoftwareDims(r) ==
    calculateDimensions(r.img.w, r.img.h, MAX_WIDTH, MAX_HEIGHT, Rat(0, 1), Rat(0, 1))

\* C10: with acceleration enabled, after every failure of the bridge (module
\* not ready, no usable export, allocation null or 0, non-zero error code,
\* exception) processImageData returns a canvas of targetWidth x targetHeight
\* drawn by the software path, and unless the software path or the encoder
\* itself fails the request is answered with 'complete' carrying the
\* dimensions of the software-only path, and with no 'error'.
C10_FallbackCompletes ==
    \A id \in ReqIds :
        LET r == req[id]
        IN  BridgeFailed(r) =>
              /\ r.failure \in {"none", "software", "encode"}
              /\ (r.pc = "encode" \/ (r.pc = "done" /\ r.failure # "software")) =>
                    r.canvas = Canvas("software", SoftwareDims(r).width, SoftwareDims(r).height)
              /\ (r.pc = "done" /\ r.failure = "none") =>
                    /\ posted[id][Len(posted[id])] =
                          Result("complete", SoftwareDims(r).width, SoftwareDims(r).height)
                    /\ \A k \in 1 .. Len(posted[id]) : posted[id][k].type # "error"

\* a request whose kernel returned a non-zero code has been answered 'complete'
C10_Witness ==
    \E id \in ReqIds :
        /\ BridgeFailed(req[id])
        /\ req[id].bridge = "errorCode"
        /\ req[id].pc = "done"
        /\ posted[id][Len(posted[id])].type = "complete"

OrchProgressNonDecreasing ==
    \A i \in Calls :
        /\ inv[i].ordered
        /\ (PIKind(inv[i].kind) /\ inv[i].pc = "resolved") => inv[i].prog = 100

\* the percentages of the 'progress' messages posted for one request
ProgressValues(id) ==
    LET p == SelectSeq(posted[id], LAMBDA m : m.type = "progress")
    IN  [k \in 1 .. Len(p) |-> p[k].progress]

\* C11: the 'progress' messages the worker posts for one request id never
\* decrease, for every strategy, chunk count and acceleration outcome.
C11_WorkerProgressNonDecreasing ==
    \A id \in ReqIds : NonDecreasing(ProgressValues(id))

\* C12: once WASM.ready is true it stays true, and WASM.exports (with it
\* WASM.instance) is neither nulled nor replaced, under every interleaving of
\* 'init' messages and completing or failing loadWasm calls.
C12_ReadyNeverTornDown ==
    [][WASM.ready => (WASM'.ready /\ WASM'.exports = WASM.exports)]_vars

\* C31: the settings a 'process' request uses are the ones in effect when it
\* was received, whatever 'init' messages are handled while it is suspended
\* at an await: the acceleration setting processImageData goes by is the one
\* of CONFIG at receipt, and the chunk loop draws the tiles of the chunk
\* edge at receipt.
C31_ConfigFixedAtReceipt ==
    \A id \in ReqIds :
        LET r == req[id]
        IN  (r.kind = "process" /\ r.mode = "imageData") =>
              /\ r.enabled = r.received.WASM_ENABLED
              /\ r.canvas.by = "software" =>
                    r.tiles = TilesDrawn(r.img, r.received.CHUNK_SIZE)

\* the messages that end a request
Terminal(m) == m.type \in {"complete", "previewComplete", "error"}

\* the terminal message the handler of request r owes
Owed(r) ==
    IF r.failure # "none" THEN "error"
    ELSE IF r.kind = "process" THEN "complete"
    ELSE "previewComplete"

\* what has been posted is never taken back
PostedGrows(id) ==
    /\ Len(posted'[id]) >= Len(posted[id])
    /\ SubSeq(posted'[id], 1, Len(posted[id])) = posted[id]

\* C32: for every 'process' or 'generatePreview' message the worker posts
\* exactly one terminal message with the request's id ('complete' or
\* 'previewComplete' on success, 'error' on any failure) and nothing for that
\* id after it; a message of unknown type is answered with exactly one
\* 'error'; with several requests in flight, interleaved at their awaits.
C32_OneTerminalReply ==
    /\ [](\A id \in FlightIds :
             LET t == SelectSeq(posted[id], Terminal)
             IN  /\ Len(t) <= 1
                 /\ (Len(t) = 1) = (req[id].pc = "done")
                 /\ req[id].pc = "done" =>
                       /\ posted[id][Len(posted[id])].type = Owed(req[id])
                       /\ req[id].kind = "unknown" =>
                             posted[id] = <<Message("error")>>)
    /\ [][\A id \in FlightIds :
             /\ PostedGrows(id)
             /\ req[id].pc = "done" => posted'[id] = posted[id]]_vars
    /\ \A id \in FlightIds : (req[id].kind # "none") ~> (req[id].pc = "done")

\* one request has been answered 'complete' after its progress messages
\* while the handler of another is suspended at createImageBitmap
C32_Witness ==
    \E a, b \in FlightIds :
        /\ req[a].pc = "done" /\ req[a].kind = "process"
        /\ Len(posted[a]) >= 3
        /\ posted[a][Len(posted[a])].type = "complete"
        /\ req[b].pc = "bitmap"

\* the load notifications posted for one 'init'
LoadNotes(id) ==
    SelectSeq(posted[id], LAMBDA m : m.type \in {"wasmLoaded", "wasmLoadFailed"})

\* C33: after an 'init' with acceleration enabled and a URL set the worker
\* posts 'ready' first and then exactly one load notification: 'wasmLoaded'
\* only when WASM.ready is true at that moment, and 'wasmLoadFailed' whenever
\* the load failed.
C33_LoadNotificationTruthful ==
    /\ [](\A id \in InitIds :
             /\ posted[id] # <<>> => posted[id][1] = Message("ready")
             /\ Len(LoadNotes(id)) <= 1
             /\ id \in loading => LoadNotes(id) = <<>>)
    /\ [][\A id \in InitIds :
             LET noted == Len(posted'[id]) > Len(posted[id]) /\ LoadNotes(id)' # <<>>
                 last  == posted'[id][Len(posted'[id])]
             IN  \* the init message itself
                 /\ (posted[id] = <<>> /\ posted'[id] # <<>>
                       /\ CONFIG'.WASM_ENABLED /\ CONFIG'.WASM_URL)
                       => (id \in loading' \/ Len(LoadNotes(id)') = 1)
                 \* the load of this init ends
                 /\ (id \in loading /\ id \notin loading')
                       => /\ Len(LoadNotes(id)') = 1
                          /\ ~WASM'.ready => last.type = "wasmLoadFailed"
                 /\ (noted /\ last.type = "wasmLoaded") => WASM'.ready]_vars

\* C34: for every surface width and height calculateImageComplexity reads at
\* most 128 samples per row and at most 128 rows (at most 128 x 128 in
\* total), and the estimate neither changes the dimensions of the canvas nor
\* rejects the image.
C34_SampleGridBounded ==
    cxRun.pc \notin {"idle", "entered"} =>
        /\ cxRun.perRow <= SAMPLE_MAX
        /\ cxRun.rows <= SAMPLE_MAX
        /\ cxRun.count <= SAMPLE_MAX * SAMPLE_MAX
        /\ cxRun.pc = "estimated"
        /\ cxRun.width = cxCanvas.w /\ cxRun.height = cxCanvas.h

----------------------------------------------------------------------------
(* Claims about the requestIdleCallback polyfill *)

\* C35: after cancelIdleCallback(id), called with the id requestIdleCallback
\* returned at any time before the callback has run (before the first frame
\* or between the first and the second, with or without a timeout option),
\* the callback is never invoked, neither by the frame path nor by the
\* timeout timer.
C35_CancelledNeverInvoked ==
    \A k \in Regs : callbacks[k].afterCancel = 0

\* C36: a callback registered once is invoked at most once, in every order
\* in which the timeout timer and the frames fire: the timeout path and the
\* frame path exclude each other, and once the timeout timer of a call has
\* fired its callback has been invoked.
C36_InvokedAtMostOnce ==
    \A k \in Regs :
        /\ callbacks[k].invoked <= 1
        /\ Cardinality(callbacks[k].paths) <= 1
        /\ callbacks[k].timedOut =>
              (callbacks[k].invoked = 1 /\ callbacks[k].paths = {"timeout"})

\* the timeout timer fired between the first and the second frame: the
\* pending second frame was cancelled and the callback ran once
C36_Witness ==
    \E k \in Regs :
        /\ host.useMessageChannel
        /\ callbacks[k].timedOut /\ callbacks[k].framesRun = 1
        /\ callbacks[k].invoked = 1
        /\ \A f \in host.frames : f.k # k

----------------------------------------------------------------------------
(* Claims about the chunked strategy *)

\* C13: for every source size, target size and chunk edge, compositing the
\* chunks in any order yields the destination surface that compositing them
\* in forward order yields.
C13_OrderIndependent ==
    drawn = Chunks(chunkIn) => surface = ForwardSurface(chunkIn)

\* C22: the destination rectangles of distinct chunks are pairwise disjoint:
\* compositing a chunk never writes a destination pixel that another chunk
\* has written.
C22_DisjointRectangles ==
    [][\A p \in Pixels(chunkIn) :
          surface[p] # NoChunk => surface'[p] = surface[p]]_vars

\* every destination pixel has been written when all chunks are composited
AllPixelsWritten ==
    drawn = Chunks(chunkIn) => \A p \in Pixels(chunkIn) : surface[p] # NoChunk

\* no destination rectangle extends past the target surface
RectanglesWithinTarget ==
    \A c \in Chunks(chunkIn) :
        LET d == DestRect(chunkIn, c)
        IN  d.dx + d.dw <= chunkIn.tw /\ d.dy + d.dh <= chunkIn.th

\* C23: the destination rectangles cover the whole target surface (every
\* destination pixel is written by at least one chunk) and none extends past
\* the target bounds.
C23_CoversTarget == AllPixelsWritten /\ RectanglesWithinTarget

=============================================================================
